---- MODULE Spec2Model ----
(***************************************************************************)
(* A model of the SSH MCP server of src/src/index.ts: the three            *)
(* process-wide maps (connectionPool with connectionContexts,              *)
(* credentialStore, shellSessions), the tool handlers that read and change *)
(* them, and the events of the interactive shell channels.                 *)
(*                                                                         *)
(* Scheduling is that of the Node.js event loop.  A handler runs without   *)
(* interruption up to its next `await`; the part of a handler between two  *)
(* awaits is one action here.  A handler that is suspended at an await is  *)
(* a record of `calls`; the response a handler returns (or the McpError it *)
(* throws) is written to `last`.  The continuation of a promise that an    *)
(* event handler resolved runs as a microtask, before any other macrotask: *)
(* see NoMicrotask.                                                        *)
(*                                                                         *)
(* Text is a sequence of character codes.                                  *)
(***************************************************************************)
EXTENDS Naturals, Sequences, FiniteSets

\* ------------------------------------------------------------------ bounds

\* Handler invocations that can be suspended at an await at the same time.
MaxCalls == 2
\* NodeSSH objects that connect successfully in one run.
MaxHandles == 2
\* ShellSession objects created in one run.
MaxSessions == 2
\* 'data' events one channel delivers.
MaxData == 2
\* Characters written to one channel.
MaxWritten == 3
\* 'data' listeners registered on one session emitter at the same time.
MaxListeners == 2
\* The last reading of the clock (Date), in ticks.
MaxTime == 1

ConnIds == {"c1"}
SessIds == {"s1"}
CredIds == {"k1"}
Calls == 1..MaxCalls

\* The input texts of ssh_send_input: the empty text, one and two characters.
Inputs == {<<>>, <<7>>, <<7, 8>>}

\* ------------------------------------------------------------------- state

VARIABLES
  connectionPool,      \* connectionId -> NodeSSH object
  connectionContexts,  \* connectionId -> ConnectionContext object
  credentialStore,     \* credentialId -> StoredCredential
  shellSessions,       \* sessionId -> ShellSession object
  nodes,               \* the NodeSSH objects that connected, with their contexts
  sessions,            \* the ShellSession objects, with their channels
  calls,               \* the handler invocations suspended at an await
  last,                \* the response returned last
  clock,               \* the time new Date() reads
  tempFiles,           \* the staging files there are in /tmp, each named
                       \* by the call that chose its name
  exited               \* process.exit was called

vars == <<connectionPool, connectionContexts, credentialStore, shellSessions,
          nodes, sessions, calls, last, clock, tempFiles, exited>>

\* ---------------------------------------------------------------- Map<K,V>

Has(m, k) == k \in DOMAIN m

MapSet(m, k, v) == [x \in DOMAIN m \cup {k} |-> IF x = k THEN v ELSE m[x]]

MapDelete(m, k) == [x \in DOMAIN m \ {k} |-> m[x]]

EmptyMap == [x \in {} |-> 0]

\* ------------------------------------------------------------- the records

\* currentWorkingDirectory: undefined (and the empty string, which `!currentDir`
\* treats alike).
NoDir == ""

\* A NodeSSH object that connected and the ConnectionContext made for it.
NewNode == [disposed |-> FALSE, currentWorkingDirectory |-> NoDir]

\* A ShellSession object and the channel it wraps.  ssh, buffer and isActive
\* are the object's fields; listeners counts the emitter's 'data' listeners.
\* Of the channel: closed (its 'close' event was emitted), closeRequested
\* (shell.close() was called), written (what shell.write() was given, in
\* order) and nData (the 'data' events emitted).  delivered is the text the
\* completed clearing reads returned, in order; wasRead records that a read
\* of the session was issued, overlapped that two were pending at the same
\* time.
NewSession(h) ==
  [ssh |-> h, buffer |-> <<>>, isActive |-> TRUE, listeners |-> 0,
   closed |-> FALSE, closeRequested |-> FALSE, written |-> <<>>, nData |-> 0,
   delivered |-> <<>>, wasRead |-> FALSE, overlapped |-> FALSE]

\* The parameters of ssh_connect and ssh_save_credential: where to connect
\* and the authentication material, "" for a string that is not given (an
\* empty string is falsy as an absent one is).  One with a password, one with
\* a key and passphrase, one with both, one with neither.
Params ==
  { [host |-> "h1", port |-> 22, username |-> "u",
     password |-> "p", privateKeyPath |-> "", passphrase |-> ""],
    [host |-> "h2", port |-> 2222, username |-> "v",
     password |-> "", privateKeyPath |-> "k", passphrase |-> "x"],
    [host |-> "h1", port |-> 22, username |-> "u",
     password |-> "p", privateKeyPath |-> "k", passphrase |-> ""],
    [host |-> "h2", port |-> 22, username |-> "u",
     password |-> "", privateKeyPath |-> "", passphrase |-> ""] }

\* A StoredCredential made of the parameters p at time t.
StoredCredential(p, t) ==
  [host |-> p.host, port |-> p.port, username |-> p.username,
   password |-> p.password, privateKeyPath |-> p.privateKeyPath,
   passphrase |-> p.passphrase, createdAt |-> t, lastUsed |-> t]

NoCredential ==
  [host |-> "", port |-> 0, username |-> "", password |-> "",
   privateKeyPath |-> "", passphrase |-> "", createdAt |-> 0, lastUsed |-> 0]

\* A suspended handler invocation: the tool (op), the await it is at (pc), the
\* id it was called with (id), its second id or path (arg), the object it
\* holds a reference to (obj), and its locals: clearBuffer or simulateTyping
\* (flag), the input of a send and what its loop has written (out), the text
\* a read's promise was resolved with (out), the credential of a connect, the
\* error a catch block caught, named by the await that threw it (error).  n0
\* is what the channel had emitted (a read) or been given (a send) when the
\* handler was called.
Idle ==
  [op |-> "idle", pc |-> "idle", id |-> "", arg |-> "", obj |-> 0,
   flag |-> FALSE, input |-> <<>>, out |-> <<>>, n0 |-> 0,
   credential |-> NoCredential, error |-> ""]

\* A response: the tool, the ids it was called with, the ErrorCode of the
\* McpError thrown ("ok" when the handler returned), what its message says,
\* and the text (out), the directory (path) or the lines of the credential
\* list (credentials) in it.
Response(op, id, arg, code, msg) ==
  [op |-> op, id |-> id, arg |-> arg, code |-> code, msg |-> msg,
   out |-> <<>>, path |-> "", credentials |-> EmptyMap]

Ok(op, id, arg) == Response(op, id, arg, "ok", "")
InvalidParams(op, id, arg, msg) == Response(op, id, arg, "InvalidParams", msg)
InternalError(op, id, arg, msg) == Response(op, id, arg, "InternalError", msg)

\* The error classes of the specification, as the handlers express them.
AlreadyExists(r) == r.code = "InvalidParams" /\ r.msg = "already exists"
NotFound(r) == r.code = "InvalidParams" /\ r.msg = "not found"
InvalidState(r) == r.code = "InvalidParams" /\ r.msg = "not active"

\* ------------------------------------------------------------- scheduling

\* A read whose promise a 'data' listener resolved has its continuation
\* queued as a microtask.
Captured(c) == calls[c].op = "read" /\ calls[c].pc = "captured"

\* Microtasks run before the event loop takes the next macrotask: no tool
\* call, timer or transport completion is handled while one is queued.
NoMicrotask == \A c \in Calls : ~Captured(c)

\* A handler that suspends takes the lowest free record.
Free(c) ==
  /\ NoMicrotask
  /\ calls[c] = Idle
  /\ \A d \in Calls : d < c => calls[d] # Idle

\* A suspended handler whose awaited promise settles.
At(c, op, pc) == NoMicrotask /\ calls[c].op = op /\ calls[c].pc = pc

Suspend(c, r) == calls' = [calls EXCEPT ![c] = r]
Finish(c, r) == calls' = [calls EXCEPT ![c] = Idle] /\ last' = r

\* ------------------------------------------------------------------- Init

Init ==
  /\ connectionPool = EmptyMap
  /\ connectionContexts = EmptyMap
  /\ credentialStore = EmptyMap
  /\ shellSessions = EmptyMap
  /\ nodes = <<>>
  /\ sessions = <<>>
  /\ calls = [c \in Calls |-> Idle]
  /\ last = Response("none", "", "", "ok", "")
  /\ clock = 0
  /\ tempFiles = {}
  /\ exited = FALSE

\* Time passes.
Tick ==
  /\ clock < MaxTime
  /\ clock' = clock + 1
  /\ UNCHANGED <<connectionPool, connectionContexts, credentialStore,
                 shellSessions, nodes, sessions, calls, last>>
  /\ UNCHANGED <<tempFiles, exited>>

\* ------------------------------------------------------------ connections

\* What the try block of a connect handler does with the authentication
\* material before `await ssh.connect`: it reads the key file, or takes the
\* password, or throws.
AuthMethod(p) ==
  IF p.privateKeyPath # "" THEN "privateKey"
  ELSE IF p.password # "" THEN "password"
  ELSE "none"

\* connectionPool.set and connectionContexts.set of a new connection.
Register(x, h) ==
  /\ connectionPool' = MapSet(connectionPool, x, h)
  /\ connectionContexts' = MapSet(connectionContexts, x, h)

\* ssh_connect, up to `await fs.readFile` / `await ssh.connect`.  The two
\* awaits are one suspension here: nothing shared is read or written between
\* them.  An McpError thrown inside the try block is caught by its catch and
\* thrown again as an InternalError.
handleSSHConnect(c, x, p) ==
  /\ Free(c)
  /\ IF Has(connectionPool, x)
       THEN /\ last' = InvalidParams("connect", x, "", "already exists")
            /\ UNCHANGED calls
       ELSE IF AuthMethod(p) = "none"
       THEN /\ last' = InternalError("connect", x, "", "connection failed")
            /\ UNCHANGED calls
       ELSE /\ Suspend(c, [Idle EXCEPT !.op = "connect", !.pc = "connect",
                                       !.id = x, !.arg = AuthMethod(p)])
            /\ UNCHANGED last
  /\ UNCHANGED <<connectionPool, connectionContexts, credentialStore,
                 shellSessions, nodes, sessions, clock>>
  /\ UNCHANGED <<tempFiles, exited>>

\* ssh_connect after the await: the connection is registered, or the
\* transport's error is thrown as an InternalError.
sshConnectSettled(c, connected) ==
  /\ At(c, "connect", "connect")
  /\ IF connected
       THEN /\ Len(nodes) < MaxHandles
            /\ nodes' = Append(nodes, NewNode)
            /\ Register(calls[c].id, Len(nodes) + 1)
            /\ Finish(c, Ok("connect", calls[c].id, ""))
       ELSE /\ Finish(c, InternalError("connect", calls[c].id, "",
                                       "connection failed"))
            /\ UNCHANGED <<connectionPool, connectionContexts, nodes>>
  /\ UNCHANGED <<credentialStore, shellSessions, sessions, clock>>
  /\ UNCHANGED <<tempFiles, exited>>

\* ssh_disconnect.  ssh.dispose() is not inside a try block: when it throws,
\* the handler ends there and the dispatcher reports an InternalError.
handleSSHDisconnect(x, disposeThrows) ==
  /\ NoMicrotask
  /\ IF ~Has(connectionPool, x)
       THEN /\ last' = InvalidParams("disconnect", x, "", "not found")
            /\ UNCHANGED <<connectionPool, connectionContexts, nodes>>
       ELSE IF disposeThrows
       THEN /\ last' = InternalError("disconnect", x, "", "tool failed")
            /\ UNCHANGED <<connectionPool, connectionContexts, nodes>>
       ELSE /\ nodes' = [nodes EXCEPT ![connectionPool[x]].disposed = TRUE]
            /\ connectionPool' = MapDelete(connectionPool, x)
            /\ connectionContexts' = MapDelete(connectionContexts, x)
            /\ last' = Ok("disconnect", x, "")
  /\ UNCHANGED <<credentialStore, shellSessions, sessions, calls, clock>>
  /\ UNCHANGED <<tempFiles, exited>>

\* ------------------------------------------------------------ credentials

\* A save that does not look the id up first: it stores over a credential
\* that is already there.
SaveCredentialOverwriting(k, p) ==
  /\ NoMicrotask
  /\ IF p.password = "" /\ p.privateKeyPath = ""
       THEN /\ last' = InvalidParams("save", k, "", "no authentication")
            /\ UNCHANGED credentialStore
       ELSE /\ credentialStore' =
                 MapSet(credentialStore, k, StoredCredential(p, clock))
            /\ last' = Ok("save", k, "")
  /\ UNCHANGED <<connectionPool, connectionContexts, shellSessions, nodes,
                 sessions, calls, clock>>
  /\ UNCHANGED <<tempFiles, exited>>

\* A save that does not look for authentication material.
SaveCredentialUnvalidated(k, p) ==
  /\ NoMicrotask
  /\ IF Has(credentialStore, k)
       THEN /\ last' = InvalidParams("save", k, "", "already exists")
            /\ UNCHANGED credentialStore
       ELSE /\ credentialStore' =
                 MapSet(credentialStore, k, StoredCredential(p, clock))
            /\ last' = Ok("save", k, "")
  /\ UNCHANGED <<connectionPool, connectionContexts, shellSessions, nodes,
                 sessions, calls, clock>>
  /\ UNCHANGED <<tempFiles, exited>>

\* ssh_save_credential.
handleSaveCredential(k, p) ==
  /\ NoMicrotask
  /\ IF Has(credentialStore, k)
       THEN /\ last' = InvalidParams("save", k, "", "already exists")
            /\ UNCHANGED credentialStore
       ELSE IF p.password = "" /\ p.privateKeyPath = ""
       THEN /\ last' = InvalidParams("save", k, "", "no authentication")
            /\ UNCHANGED credentialStore
       ELSE /\ credentialStore' =
                 MapSet(credentialStore, k, StoredCredential(p, clock))
            /\ last' = Ok("save", k, "")
  /\ UNCHANGED <<connectionPool, connectionContexts, shellSessions, nodes,
                 sessions, calls, clock>>
  /\ UNCHANGED <<tempFiles, exited>>

\* A delete that reports success whether or not the id is stored.
DeleteCredentialIdempotent(k) ==
  /\ NoMicrotask
  /\ credentialStore' = MapDelete(credentialStore, k)
  /\ last' = Ok("delete", k, "")
  /\ UNCHANGED <<connectionPool, connectionContexts, shellSessions, nodes,
                 sessions, calls, clock>>
  /\ UNCHANGED <<tempFiles, exited>>

\* ssh_delete_credential.
handleDeleteCredential(k) ==
  /\ NoMicrotask
  /\ IF ~Has(credentialStore, k)
       THEN /\ last' = InvalidParams("delete", k, "", "not found")
            /\ UNCHANGED credentialStore
       ELSE /\ credentialStore' = MapDelete(credentialStore, k)
            /\ last' = Ok("delete", k, "")
  /\ UNCHANGED <<connectionPool, connectionContexts, shellSessions, nodes,
                 sessions, calls, clock>>
  /\ UNCHANGED <<tempFiles, exited>>

\* What ssh_list_credentials makes of a stored credential (lines 1130-1139):
\* the secrets are reduced to hasPassword and hasPrivateKey.
Mask(cred) ==
  [host |-> cred.host, port |-> cred.port, username |-> cred.username,
   hasPassword |-> cred.password # "",
   hasPrivateKey |-> cred.privateKeyPath # "",
   createdAt |-> cred.createdAt, lastUsed |-> cred.lastUsed]

\* The array `credentials` of ssh_list_credentials, by credentialId.  With
\* one credentialId there is one order of the entries.
ListedCredentials(store) == [k \in DOMAIN store |-> Mask(store[k])]

\* The line of the response text for one entry of `credentials`
\* (lines 1146-1148); the credentialId is the key it is kept under.
CredentialLine(c) ==
  [username |-> c.username, host |-> c.host, port |-> c.port,
   method |-> IF c.hasPassword THEN "password" ELSE "key",
   lastUsed |-> c.lastUsed]

\* The response text of ssh_list_credentials.
ListText(store) ==
  [k \in DOMAIN store |-> CredentialLine(ListedCredentials(store)[k])]

\* A list whose lines give the password where there is one.
ListCredentialsVerbatim ==
  /\ NoMicrotask
  /\ last' = [Ok("list", "", "") EXCEPT
                !.credentials =
                   [k \in DOMAIN credentialStore |->
                      [ListText(credentialStore)[k] EXCEPT
                         !.method = credentialStore[k].password]]]
  /\ UNCHANGED <<connectionPool, connectionContexts, credentialStore,
                 shellSessions, nodes, sessions, calls, clock>>
  /\ UNCHANGED <<tempFiles, exited>>

\* ssh_list_credentials.
handleListCredentials ==
  /\ NoMicrotask
  /\ last' = [Ok("list", "", "") EXCEPT !.credentials = ListText(credentialStore)]
  /\ UNCHANGED <<connectionPool, connectionContexts, credentialStore,
                 shellSessions, nodes, sessions, calls, clock>>
  /\ UNCHANGED <<tempFiles, exited>>

\* ssh_connect_with_credential, up to its await.  `credential` is a reference
\* to the stored object; the fields the handler reads later never change, and
\* it overwrites lastUsed, so the record kept here stands for the object.
handleConnectWithCredential(c, k, x) ==
  /\ Free(c)
  /\ IF Has(connectionPool, x)
       THEN /\ last' = InvalidParams("connectWith", x, k, "already exists")
            /\ UNCHANGED calls
       ELSE IF ~Has(credentialStore, k)
       THEN /\ last' = InvalidParams("connectWith", x, k, "not found")
            /\ UNCHANGED calls
       ELSE IF AuthMethod(credentialStore[k]) = "none"
       THEN /\ last' = InternalError("connectWith", x, k, "connection failed")
            /\ UNCHANGED calls
       ELSE /\ Suspend(c, [Idle EXCEPT !.op = "connectWith", !.pc = "connect",
                                       !.id = x, !.arg = k,
                                       !.credential = credentialStore[k]])
            /\ UNCHANGED last
  /\ UNCHANGED <<connectionPool, connectionContexts, credentialStore,
                 shellSessions, nodes, sessions, clock>>
  /\ UNCHANGED <<tempFiles, exited>>

\* A connect with a credential that leaves lastUsed as it is.
ConnectWithCredentialUnstamped(c, connected) ==
  /\ At(c, "connectWith", "connect")
  /\ IF connected
       THEN /\ Len(nodes) < MaxHandles
            /\ nodes' = Append(nodes, NewNode)
            /\ Register(calls[c].id, Len(nodes) + 1)
            /\ credentialStore' =
                 MapSet(credentialStore, calls[c].arg, calls[c].credential)
            /\ Finish(c, Ok("connectWith", calls[c].id, calls[c].arg))
       ELSE /\ Finish(c, InternalError("connectWith", calls[c].id,
                                       calls[c].arg, "connection failed"))
            /\ UNCHANGED <<connectionPool, connectionContexts, nodes,
                           credentialStore>>
  /\ UNCHANGED <<shellSessions, sessions, clock>>
  /\ UNCHANGED <<tempFiles, exited>>

\* A connect with a credential that updates lastUsed whether or not the
\* transport connected.
ConnectWithCredentialStampsAttempt(c, connected) ==
  /\ At(c, "connectWith", "connect")
  /\ credentialStore' =
       MapSet(credentialStore, calls[c].arg,
              [calls[c].credential EXCEPT !.lastUsed = clock])
  /\ IF connected
       THEN /\ Len(nodes) < MaxHandles
            /\ nodes' = Append(nodes, NewNode)
            /\ Register(calls[c].id, Len(nodes) + 1)
            /\ Finish(c, Ok("connectWith", calls[c].id, calls[c].arg))
       ELSE /\ Finish(c, InternalError("connectWith", calls[c].id,
                                       calls[c].arg, "connection failed"))
            /\ UNCHANGED <<connectionPool, connectionContexts, nodes>>
  /\ UNCHANGED <<shellSessions, sessions, clock>>
  /\ UNCHANGED <<tempFiles, exited>>

\* ssh_connect_with_credential after the await: the connection is registered
\* and the credential, with lastUsed updated, is set in the store again.
connectWithCredentialSettled(c, connected) ==
  /\ At(c, "connectWith", "connect")
  /\ IF connected
       THEN /\ Len(nodes) < MaxHandles
            /\ nodes' = Append(nodes, NewNode)
            /\ Register(calls[c].id, Len(nodes) + 1)
            /\ credentialStore' =
                 MapSet(credentialStore, calls[c].arg,
                        [calls[c].credential EXCEPT !.lastUsed = clock])
            /\ Finish(c, Ok("connectWith", calls[c].id, calls[c].arg))
       ELSE /\ Finish(c, InternalError("connectWith", calls[c].id,
                                       calls[c].arg, "connection failed"))
            /\ UNCHANGED <<connectionPool, connectionContexts, nodes,
                           credentialStore>>
  /\ UNCHANGED <<shellSessions, sessions, clock>>
  /\ UNCHANGED <<tempFiles, exited>>

\* --------------------------------------------------- interactive sessions

\* ssh_start_interactive_shell, up to `await ssh.requestShell`.
handleStartInteractiveShell(c, x, s) ==
  /\ Free(c)
  /\ IF ~Has(connectionPool, x)
       THEN /\ last' = InvalidParams("startShell", s, x, "not found")
            /\ UNCHANGED calls
       ELSE IF Has(shellSessions, s)
       THEN /\ last' = InvalidParams("startShell", s, x, "already exists")
            /\ UNCHANGED calls
       ELSE /\ Suspend(c, [Idle EXCEPT !.op = "startShell",
                                       !.pc = "requestShell", !.id = s,
                                       !.arg = x, !.obj = connectionPool[x]])
            /\ UNCHANGED last
  /\ UNCHANGED <<connectionPool, connectionContexts, credentialStore,
                 shellSessions, nodes, sessions, clock>>
  /\ UNCHANGED <<tempFiles, exited>>

\* A start that sets its session in shellSessions before it knows whether
\* the channel was opened.
StartRegistersUnopened(c, opened) ==
  /\ At(c, "startShell", "requestShell")
  /\ Len(sessions) < MaxSessions
  /\ sessions' = Append(sessions, [NewSession(calls[c].obj) EXCEPT
                                     !.isActive = opened, !.closed = ~opened])
  /\ shellSessions' = MapSet(shellSessions, calls[c].id, Len(sessions) + 1)
  /\ IF opened
       THEN Finish(c, Ok("startShell", calls[c].id, calls[c].arg))
       ELSE Finish(c, InternalError("startShell", calls[c].id,
                                    calls[c].arg, "shell failed"))
  /\ UNCHANGED <<connectionPool, connectionContexts, credentialStore, nodes,
                 clock>>
  /\ UNCHANGED <<tempFiles, exited>>

\* ssh_start_interactive_shell after the await: the session object is made,
\* its hooks are put on the channel and it is set in shellSessions; or the
\* transport's error is thrown as an InternalError.  A disposed NodeSSH opens
\* no channel.
requestShellSettled(c, opened) ==
  /\ At(c, "startShell", "requestShell")
  /\ IF opened
       THEN /\ ~nodes[calls[c].obj].disposed
            /\ Len(sessions) < MaxSessions
            /\ sessions' = Append(sessions, NewSession(calls[c].obj))
            /\ shellSessions' =
                 MapSet(shellSessions, calls[c].id, Len(sessions) + 1)
            /\ Finish(c, Ok("startShell", calls[c].id, calls[c].arg))
       ELSE /\ Finish(c, InternalError("startShell", calls[c].id,
                                       calls[c].arg, "shell failed"))
            /\ UNCHANGED <<shellSessions, sessions>>
  /\ UNCHANGED <<connectionPool, connectionContexts, credentialStore, nodes,
                 clock>>
  /\ UNCHANGED <<tempFiles, exited>>

\* The reads suspended on session object j with their 'data' listener set.
Waiting(j) ==
  {c \in Calls : calls[c].op = "read" /\ calls[c].pc = "wait" /\ calls[c].obj = j}

\* The transport emits the events of the packets of one socket read one after
\* the other, before any microtask runs: a channel event can follow the event
\* that resolved a read when both channels are of the same connection.
SameSocketRead(j) ==
  \A c \in Calls :
    Captured(c) => sessions[calls[c].obj].ssh = sessions[j].ssh

\* A 'data' hook that looks its session up in shellSessions instead of
\* holding the object: the text of a channel whose session is no longer
\* registered goes to the session registered now.
ShellOnDataThroughRegistry(j) ==
  /\ j \in 1..Len(sessions)
  /\ SameSocketRead(j)
  /\ ~sessions[j].closed
  /\ sessions[j].nData < MaxData
  /\ LET text == <<sessions[j].nData + 1>>
         registered == {shellSessions[s] : s \in DOMAIN shellSessions}
         k == IF j \in registered \/ registered = {} THEN j
              ELSE CHOOSE r \in registered : TRUE
         buffer == sessions[k].buffer \o text
     IN /\ sessions' = [[sessions EXCEPT ![j].nData = @ + 1]
                          EXCEPT ![k].buffer = buffer, ![k].listeners = 0]
        /\ calls' = [c \in Calls |->
                       IF c \in Waiting(k)
                       THEN [calls[c] EXCEPT !.pc = "captured", !.out = buffer]
                       ELSE calls[c]]
  /\ UNCHANGED <<connectionPool, connectionContexts, credentialStore,
                 shellSessions, nodes, last, clock>>
  /\ UNCHANGED <<tempFiles, exited>>

\* A 'data' hook that does not run while a send is between two characters:
\* a typing delay that keeps the event loop busy.
ShellOnDataUnlessTyping(j) ==
  /\ j \in 1..Len(sessions)
  /\ SameSocketRead(j)
  /\ ~sessions[j].closed
  /\ sessions[j].nData < MaxData
  /\ \A c \in Calls : ~(calls[c].op = "send" /\ calls[c].pc = "typing")
  /\ LET text == <<sessions[j].nData + 1>>
         buffer == sessions[j].buffer \o text
     IN /\ sessions' = [sessions EXCEPT ![j].buffer = buffer,
                                        ![j].nData = @ + 1,
                                        ![j].listeners = 0]
        /\ calls' = [c \in Calls |->
                       IF c \in Waiting(j)
                       THEN [calls[c] EXCEPT !.pc = "captured", !.out = buffer]
                       ELSE calls[c]]
  /\ UNCHANGED <<connectionPool, connectionContexts, credentialStore,
                 shellSessions, nodes, last, clock>>
  /\ UNCHANGED <<tempFiles, exited>>

\* The 'data' hook of session object j: the text is appended to the buffer
\* and the emitter's 'data' event runs the listeners, each of which is
\* removed (once), clears its read's timer and resolves its read's promise
\* with the buffer as it is now.  The k-th event of a channel carries the
\* one-character text <<k>>.
shellOnData(j) ==
  /\ j \in 1..Len(sessions)
  /\ SameSocketRead(j)
  /\ ~sessions[j].closed
  /\ sessions[j].nData < MaxData
  /\ LET text == <<sessions[j].nData + 1>>
         buffer == sessions[j].buffer \o text
     IN /\ sessions' = [sessions EXCEPT ![j].buffer = buffer,
                                        ![j].nData = @ + 1,
                                        ![j].listeners = 0]
        /\ calls' = [c \in Calls |->
                       IF c \in Waiting(j)
                       THEN [calls[c] EXCEPT !.pc = "captured", !.out = buffer]
                       ELSE calls[c]]
  /\ UNCHANGED <<connectionPool, connectionContexts, credentialStore,
                 shellSessions, nodes, last, clock>>
  /\ UNCHANGED <<tempFiles, exited>>

\* A 'close' hook that flips isActive instead of setting it to false.
ShellOnCloseToggles(j) ==
  /\ j \in 1..Len(sessions)
  /\ SameSocketRead(j)
  /\ ~sessions[j].closed
  /\ sessions' = [sessions EXCEPT ![j].isActive = ~@, ![j].closed = TRUE]
  /\ UNCHANGED <<connectionPool, connectionContexts, credentialStore,
                 shellSessions, nodes, calls, last, clock>>
  /\ UNCHANGED <<tempFiles, exited>>

\* The 'close' hook of session object j.  Nothing listens to the emitter's
\* 'close' event.
shellOnClose(j) ==
  /\ j \in 1..Len(sessions)
  /\ SameSocketRead(j)
  /\ ~sessions[j].closed
  /\ sessions' = [sessions EXCEPT ![j].isActive = FALSE, ![j].closed = TRUE]
  /\ UNCHANGED <<connectionPool, connectionContexts, credentialStore,
                 shellSessions, nodes, calls, last, clock>>
  /\ UNCHANGED <<tempFiles, exited>>

\* What a read returns.
ReadResponse(s, text) == [Ok("read", s, "") EXCEPT !.out = text]

\* A read that leaves the buffer as it is whatever clearBuffer says.
KeepBuffer(j, clearBuffer, text) ==
  sessions' = [sessions EXCEPT ![j].wasRead = TRUE]

\* Lines 1033-1037 of a read of session object j that got `text`: the buffer
\* is reset when clearBuffer is set.
ClearBuffer(j, clearBuffer, text) ==
  sessions' = [sessions EXCEPT
                 ![j].buffer = IF clearBuffer THEN <<>> ELSE @,
                 ![j].delivered = IF clearBuffer THEN @ \o text ELSE @,
                 ![j].wasRead = TRUE]

\* ssh_read_output, up to its await.  With text in the buffer the promise is
\* resolved inside its executor and the handler goes on in the next
\* microtask, before anything else runs: the read returns in this step.
\* Otherwise the timer and the 'data' listener are set.
handleReadOutput(c, s, clearBuffer) ==
  /\ Free(c)
  /\ IF ~Has(shellSessions, s)
       THEN /\ last' = InvalidParams("read", s, "", "not found")
            /\ UNCHANGED <<sessions, calls>>
       ELSE LET j == shellSessions[s]
                session == sessions[j]
            IN IF session.buffer # <<>>
               THEN /\ ClearBuffer(j, clearBuffer, session.buffer)
                    /\ last' = ReadResponse(s, session.buffer)
                    /\ UNCHANGED calls
               ELSE /\ session.listeners < MaxListeners
                    /\ sessions' = [sessions EXCEPT
                                      ![j].listeners = @ + 1,
                                      ![j].wasRead = TRUE,
                                      ![j].overlapped = @ \/ Waiting(j) # {}]
                    /\ Suspend(c, [Idle EXCEPT !.op = "read", !.pc = "wait",
                                               !.id = s, !.obj = j,
                                               !.flag = clearBuffer,
                                               !.n0 = session.nData])
                    /\ UNCHANGED last
  /\ UNCHANGED <<connectionPool, connectionContexts, credentialStore,
                 shellSessions, nodes, clock>>
  /\ UNCHANGED <<tempFiles, exited>>

\* A read whose timer is cleared when its session is closed or becomes
\* inactive.
ReadTimerOfOpenSessionOnly(c) ==
  /\ At(c, "read", "wait")
  /\ Has(shellSessions, calls[c].id)
  /\ shellSessions[calls[c].id] = calls[c].obj
  /\ sessions[calls[c].obj].isActive
  /\ LET j == calls[c].obj
         text == sessions[j].buffer
     IN /\ ClearBuffer(j, calls[c].flag, text)
        /\ Finish(c, ReadResponse(calls[c].id, text))
  /\ UNCHANGED <<connectionPool, connectionContexts, credentialStore,
                 shellSessions, nodes, clock>>
  /\ UNCHANGED <<tempFiles, exited>>

\* The timer of a waiting read fires: the promise is resolved with the buffer
\* and the handler goes on in the next microtask.  The 'data' listener stays
\* on the emitter.
readOutputTimeout(c) ==
  /\ At(c, "read", "wait")
  /\ LET j == calls[c].obj
         text == sessions[j].buffer
     IN /\ ClearBuffer(j, calls[c].flag, text)
        /\ Finish(c, ReadResponse(calls[c].id, text))
  /\ UNCHANGED <<connectionPool, connectionContexts, credentialStore,
                 shellSessions, nodes, clock>>
  /\ UNCHANGED <<tempFiles, exited>>

\* The microtask of a read whose 'data' listener resolved its promise: the
\* handler goes on after the await with the text the promise was resolved
\* with.
readOutputResumed(c) ==
  /\ Captured(c)
  /\ LET j == calls[c].obj
     IN /\ ClearBuffer(j, calls[c].flag, calls[c].out)
        /\ Finish(c, ReadResponse(calls[c].id, calls[c].out))
  /\ UNCHANGED <<connectionPool, connectionContexts, credentialStore,
                 shellSessions, nodes, clock>>
  /\ UNCHANGED <<tempFiles, exited>>

\* shell.write(text) on the channel of session object j.
Write(j, text) ==
  /\ Len(sessions[j].written) + Len(text) <= MaxWritten
  /\ sessions' = [sessions EXCEPT ![j].written = @ \o text]

\* A send that does not look at isActive.
SendInputUnchecked(c, s, input, simulateTyping, writeThrows) ==
  /\ Free(c)
  /\ IF ~Has(shellSessions, s)
       THEN /\ last' = InvalidParams("send", s, "", "not found")
            /\ UNCHANGED sessions
       ELSE IF writeThrows
       THEN /\ last' = InternalError("send", s, "", "send failed")
            /\ UNCHANGED sessions
       ELSE /\ Write(shellSessions[s], input)
            /\ last' = Ok("send", s, "")
  /\ UNCHANGED <<connectionPool, connectionContexts, credentialStore,
                 shellSessions, nodes, calls, clock>>
  /\ UNCHANGED <<tempFiles, exited>>

\* A send that takes a write that throws for the end of the session and
\* marks it inactive.
SendFailureDeactivates(c, s, input, simulateTyping, writeThrows) ==
  /\ Free(c)
  /\ IF ~Has(shellSessions, s)
       THEN /\ last' = InvalidParams("send", s, "", "not found")
            /\ UNCHANGED <<sessions, calls>>
       ELSE LET j == shellSessions[s]
            IN IF ~sessions[j].isActive
               THEN /\ last' = InvalidParams("send", s, "", "not active")
                    /\ UNCHANGED <<sessions, calls>>
               ELSE IF simulateTyping /\ input = <<>>
               THEN /\ last' = Ok("send", s, "")
                    /\ UNCHANGED <<sessions, calls>>
               ELSE IF writeThrows
               THEN /\ last' = InternalError("send", s, "", "send failed")
                    /\ sessions' = [sessions EXCEPT ![j].isActive = FALSE]
                    /\ UNCHANGED calls
               ELSE IF simulateTyping
               THEN /\ Write(j, <<input[1]>>)
                    /\ Suspend(c, [Idle EXCEPT !.op = "send", !.pc = "typing",
                                               !.id = s, !.obj = j,
                                               !.flag = TRUE, !.input = input,
                                               !.out = <<input[1]>>,
                                               !.n0 = Len(sessions[j].written)])
                    /\ UNCHANGED last
               ELSE /\ Write(j, input)
                    /\ last' = Ok("send", s, "")
                    /\ UNCHANGED calls
  /\ UNCHANGED <<connectionPool, connectionContexts, credentialStore,
                 shellSessions, nodes, clock>>
  /\ UNCHANGED <<tempFiles, exited>>

\* ssh_send_input, up to its first await.  Without simulateTyping the input
\* is written as one unit and the handler returns.  With it the first
\* character is written and the handler waits for the delay; an empty input
\* has no character and the handler returns.  A write that throws ends the
\* handler with an InternalError.
handleSendInput(c, s, input, simulateTyping, writeThrows) ==
  /\ Free(c)
  /\ IF ~Has(shellSessions, s)
       THEN /\ last' = InvalidParams("send", s, "", "not found")
            /\ UNCHANGED <<sessions, calls>>
       ELSE LET j == shellSessions[s]
            IN IF ~sessions[j].isActive
               THEN /\ last' = InvalidParams("send", s, "", "not active")
                    /\ UNCHANGED <<sessions, calls>>
               ELSE IF simulateTyping /\ input = <<>>
               THEN /\ last' = Ok("send", s, "")
                    /\ UNCHANGED <<sessions, calls>>
               ELSE IF writeThrows
               THEN /\ last' = InternalError("send", s, "", "send failed")
                    /\ UNCHANGED <<sessions, calls>>
               ELSE IF simulateTyping
               THEN /\ Write(j, <<input[1]>>)
                    /\ Suspend(c, [Idle EXCEPT !.op = "send", !.pc = "typing",
                                               !.id = s, !.obj = j,
                                               !.flag = TRUE, !.input = input,
                                               !.out = <<input[1]>>,
                                               !.n0 = Len(sessions[j].written)])
                    /\ UNCHANGED last
               ELSE /\ Write(j, input)
                    /\ last' = Ok("send", s, "")
                    /\ UNCHANGED calls
  /\ UNCHANGED <<connectionPool, connectionContexts, credentialStore,
                 shellSessions, nodes, clock>>
  /\ UNCHANGED <<tempFiles, exited>>

\* A typing loop that writes the character it has just written once more
\* before it goes on to the next.
TypingRepeatsCharacter(c, writeThrows) ==
  /\ At(c, "send", "typing")
  /\ LET j == calls[c].obj
         input == calls[c].input
         typed == calls[c].out
     IN IF Len(typed) = Len(input)
        THEN /\ Finish(c, Ok("send", calls[c].id, ""))
             /\ UNCHANGED sessions
        ELSE /\ Write(j, <<input[Len(typed)]>>)
             /\ calls' = [calls EXCEPT ![c].out = Append(typed, input[Len(typed) + 1])]
             /\ UNCHANGED last
  /\ UNCHANGED <<connectionPool, connectionContexts, credentialStore,
                 shellSessions, nodes, clock>>
  /\ UNCHANGED <<tempFiles, exited>>

\* The delay after a character is over: the loop writes the next character
\* and waits again, or it is through and the handler returns.
typingDelayElapsed(c, writeThrows) ==
  /\ At(c, "send", "typing")
  /\ LET j == calls[c].obj
         input == calls[c].input
         typed == calls[c].out
     IN IF Len(typed) = Len(input)
        THEN /\ Finish(c, Ok("send", calls[c].id, ""))
             /\ UNCHANGED sessions
        ELSE IF writeThrows
        THEN /\ Finish(c, InternalError("send", calls[c].id, "", "send failed"))
             /\ UNCHANGED sessions
        ELSE /\ Write(j, <<input[Len(typed) + 1]>>)
             /\ calls' = [calls EXCEPT ![c].out = Append(typed, input[Len(typed) + 1])]
             /\ UNCHANGED last
  /\ UNCHANGED <<connectionPool, connectionContexts, credentialStore,
                 shellSessions, nodes, clock>>
  /\ UNCHANGED <<tempFiles, exited>>

\* ssh_close_interactive_shell.  A shell.close() that throws ends the handler
\* with an InternalError, before isActive is set and the entry deleted.
handleCloseInteractiveShell(s, closeThrows) ==
  /\ NoMicrotask
  /\ IF ~Has(shellSessions, s)
       THEN /\ last' = InvalidParams("closeShell", s, "", "not found")
            /\ UNCHANGED <<shellSessions, sessions>>
       ELSE IF closeThrows
       THEN /\ last' = InternalError("closeShell", s, "", "close failed")
            /\ UNCHANGED <<shellSessions, sessions>>
       ELSE /\ sessions' = [sessions EXCEPT
                              ![shellSessions[s]].closeRequested = TRUE,
                              ![shellSessions[s]].isActive = FALSE]
            /\ shellSessions' = MapDelete(shellSessions, s)
            /\ last' = Ok("closeShell", s, "")
  /\ UNCHANGED <<connectionPool, connectionContexts, credentialStore, nodes,
                 calls, clock>>
  /\ UNCHANGED <<tempFiles, exited>>

\* ------------------------------------------ commands and working directory

\* The paths given as cwd and workingDirectory.
Paths == {"/a", "/b"}

\* What `pwd` prints on a connection.
HomeDir == "/home"

\* An execute that, given no cwd, runs in the directory of the context.
ExecuteInContextDirectory(c, x, cwd) ==
  /\ Free(c)
  /\ IF ~Has(connectionPool, x)
       THEN /\ last' = InvalidParams("execute", x, "", "not found")
            /\ UNCHANGED calls
       ELSE /\ Suspend(c, [Idle EXCEPT
                             !.op = "execute", !.pc = "exec", !.id = x,
                             !.arg = IF cwd = NoDir /\ Has(connectionContexts, x)
                                     THEN nodes[connectionContexts[x]].currentWorkingDirectory
                                     ELSE cwd,
                             !.obj = connectionPool[x]])
            /\ UNCHANGED last
  /\ UNCHANGED <<connectionPool, connectionContexts, credentialStore,
                 shellSessions, nodes, sessions, clock>>
  /\ UNCHANGED <<tempFiles, exited>>

\* ssh_execute, up to `await ssh.execCommand`; cwd is NoDir when omitted.
handleSSHExecute(c, x, cwd) ==
  /\ Free(c)
  /\ IF ~Has(connectionPool, x)
       THEN /\ last' = InvalidParams("execute", x, "", "not found")
            /\ UNCHANGED calls
       ELSE /\ Suspend(c, [Idle EXCEPT !.op = "execute", !.pc = "exec",
                                       !.id = x, !.arg = cwd,
                                       !.obj = connectionPool[x]])
            /\ UNCHANGED last
  /\ UNCHANGED <<connectionPool, connectionContexts, credentialStore,
                 shellSessions, nodes, sessions, clock>>
  /\ UNCHANGED <<tempFiles, exited>>

\* ssh_execute after the await; path is the cwd option the transport got.
execCommandSettled(c, threw) ==
  /\ At(c, "execute", "exec")
  /\ IF threw
       THEN Finish(c, InternalError("execute", calls[c].id, "", "exec failed"))
       ELSE Finish(c, [Ok("execute", calls[c].id, "") EXCEPT
                         !.path = calls[c].arg])
  /\ UNCHANGED <<connectionPool, connectionContexts, credentialStore,
                 shellSessions, nodes, sessions, clock>>
  /\ UNCHANGED <<tempFiles, exited>>

\* A set that commits the path before it probes.
SetWorkingDirectoryEager(c, x, path) ==
  /\ Free(c)
  /\ IF ~Has(connectionContexts, x)
       THEN /\ last' = InvalidParams("setWorkingDirectory", x, "", "not found")
            /\ UNCHANGED <<calls, nodes>>
       ELSE /\ nodes' = [nodes EXCEPT
                           ![connectionContexts[x]].currentWorkingDirectory = path]
            /\ Suspend(c, [Idle EXCEPT !.op = "setWorkingDirectory",
                                       !.pc = "probe", !.id = x, !.arg = path,
                                       !.obj = connectionContexts[x]])
            /\ UNCHANGED last
  /\ UNCHANGED <<connectionPool, connectionContexts, credentialStore,
                 shellSessions, sessions, clock>>
  /\ UNCHANGED <<tempFiles, exited>>

\* ssh_set_working_directory, up to the `test -d` probe.
handleSetWorkingDirectory(c, x, path) ==
  /\ Free(c)
  /\ IF ~Has(connectionContexts, x)
       THEN /\ last' = InvalidParams("setWorkingDirectory", x, "", "not found")
            /\ UNCHANGED calls
       ELSE /\ Suspend(c, [Idle EXCEPT !.op = "setWorkingDirectory",
                                       !.pc = "probe", !.id = x, !.arg = path,
                                       !.obj = connectionContexts[x]])
            /\ UNCHANGED last
  /\ UNCHANGED <<connectionPool, connectionContexts, credentialStore,
                 shellSessions, nodes, sessions, clock>>
  /\ UNCHANGED <<tempFiles, exited>>

\* A set that, its probe done, commits the path to the context that is
\* registered under its connectionId then.
WorkingDirectoryCommittedById(c, probe) ==
  /\ At(c, "setWorkingDirectory", "probe")
  /\ IF probe = "exists"
       THEN /\ nodes' =
                 IF Has(connectionContexts, calls[c].id)
                 THEN [nodes EXCEPT
                         ![connectionContexts[calls[c].id]].currentWorkingDirectory =
                            calls[c].arg]
                 ELSE nodes
            /\ Finish(c, [Ok("setWorkingDirectory", calls[c].id, "") EXCEPT
                             !.path = calls[c].arg])
       ELSE IF probe = "absent"
       THEN /\ Finish(c, InvalidParams("setWorkingDirectory", calls[c].id, "",
                                       "no directory"))
            /\ UNCHANGED nodes
       ELSE /\ Finish(c, InternalError("setWorkingDirectory", calls[c].id, "",
                                       "set failed"))
            /\ UNCHANGED nodes
  /\ UNCHANGED <<connectionPool, connectionContexts, credentialStore,
                 shellSessions, sessions, clock>>
  /\ UNCHANGED <<tempFiles, exited>>

\* ssh_set_working_directory after the probe: exit code 0 ("exists"), another
\* exit code ("absent"), or execCommand threw ("threw").
workingDirectoryProbed(c, probe) ==
  /\ At(c, "setWorkingDirectory", "probe")
  /\ IF probe = "exists"
       THEN /\ nodes' = [nodes EXCEPT
                           ![calls[c].obj].currentWorkingDirectory = calls[c].arg]
            /\ Finish(c, [Ok("setWorkingDirectory", calls[c].id, "") EXCEPT
                             !.path = calls[c].arg])
       ELSE IF probe = "absent"
       THEN /\ Finish(c, InvalidParams("setWorkingDirectory", calls[c].id, "",
                                       "no directory"))
            /\ UNCHANGED nodes
       ELSE /\ Finish(c, InternalError("setWorkingDirectory", calls[c].id, "",
                                       "set failed"))
            /\ UNCHANGED nodes
  /\ UNCHANGED <<connectionPool, connectionContexts, credentialStore,
                 shellSessions, sessions, clock>>
  /\ UNCHANGED <<tempFiles, exited>>

\* ssh_get_working_directory, up to `await context.ssh.execCommand('pwd')`:
\* a cached directory is returned at once.
handleGetWorkingDirectory(c, x) ==
  /\ Free(c)
  /\ IF ~Has(connectionContexts, x)
       THEN /\ last' = InvalidParams("getWorkingDirectory", x, "", "not found")
            /\ UNCHANGED calls
       ELSE LET context == connectionContexts[x]
                currentDir == nodes[context].currentWorkingDirectory
            IN IF currentDir # NoDir
               THEN /\ last' = [Ok("getWorkingDirectory", x, "") EXCEPT
                                  !.path = currentDir]
                    /\ UNCHANGED calls
               ELSE /\ Suspend(c, [Idle EXCEPT !.op = "getWorkingDirectory",
                                               !.pc = "pwd", !.id = x,
                                               !.obj = context])
                    /\ UNCHANGED last
  /\ UNCHANGED <<connectionPool, connectionContexts, credentialStore,
                 shellSessions, nodes, sessions, clock>>
  /\ UNCHANGED <<tempFiles, exited>>

\* ssh_get_working_directory after `pwd`: exit code 0 ("printed"), another
\* exit code ("failed"), or execCommand threw ("threw").
pwdSettled(c, pwd) ==
  /\ At(c, "getWorkingDirectory", "pwd")
  /\ IF pwd = "printed"
       THEN /\ nodes' = [nodes EXCEPT
                           ![calls[c].obj].currentWorkingDirectory = HomeDir]
            /\ Finish(c, [Ok("getWorkingDirectory", calls[c].id, "") EXCEPT
                             !.path = HomeDir])
       ELSE /\ Finish(c, InternalError("getWorkingDirectory", calls[c].id, "",
                                       IF pwd = "failed" THEN "pwd failed"
                                       ELSE "get failed"))
            /\ UNCHANGED nodes
  /\ UNCHANGED <<connectionPool, connectionContexts, credentialStore,
                 shellSessions, sessions, clock>>
  /\ UNCHANGED <<tempFiles, exited>>

\* ------------------------------------------------------------------- files

\* The connection id that stands for the machine the server runs on.
Local == "local"

\* `File copy failed: ${error.message}`: the message of the error the outer
\* catch block wraps, for the awaits that can throw and for the McpError of
\* a connection that is not registered.
CopyFailed(error) ==
  CASE error = "not found" -> "File copy failed: not found"
    [] error = "copyFile" -> "File copy failed: copyFile"
    [] error = "mkdir" -> "File copy failed: mkdir"
    [] error = "fsMkdir" -> "File copy failed: fs.mkdir"
    [] error = "putFile" -> "File copy failed: putFile"
    [] error = "getFile" -> "File copy failed: getFile"
    [] error = "stageGet" -> "File copy failed: getFile"
    [] error = "stageMkdir" -> "File copy failed: mkdir"
    [] error = "stagePut" -> "File copy failed: putFile"

\* A remote-to-remote copy whose catch block rethrows without the unlink.
CopyFailureKeepsStaging(c) ==
  /\ At(c, "copy", "catchUnlink")
  /\ Finish(c, InternalError("copy", calls[c].id, calls[c].arg,
                             CopyFailed(calls[c].error)))
  /\ UNCHANGED <<connectionPool, connectionContexts, credentialStore,
                 shellSessions, nodes, sessions, clock, tempFiles, exited>>

\* ssh_copy_file up to its first await.  The whole body is in a try block
\* whose catch wraps every error, the McpError of a missing connection
\* included, into an InternalError.  A remote-to-remote copy chooses the
\* name of its staging file and awaits sourceSSH.getFile into it.
handleSSHCopyFile(c, source, target, createDirectories) ==
  /\ Free(c)
  /\ LET call(pc, h) == [Idle EXCEPT !.op = "copy", !.pc = pc, !.id = source,
                                     !.arg = target, !.obj = h,
                                     !.flag = createDirectories]
     IN  IF source = Local /\ target = Local
         THEN Suspend(c, call("copyFile", 0)) /\ UNCHANGED last
         ELSE IF source = Local
         THEN IF ~Has(connectionPool, target)
              THEN /\ last' = InternalError("copy", source, target,
                                            CopyFailed("not found"))
                   /\ UNCHANGED calls
              ELSE /\ Suspend(c, call(IF createDirectories THEN "mkdir"
                                      ELSE "putFile", connectionPool[target]))
                   /\ UNCHANGED last
         ELSE IF target = Local
         THEN IF ~Has(connectionPool, source)
              THEN /\ last' = InternalError("copy", source, target,
                                            CopyFailed("not found"))
                   /\ UNCHANGED calls
              ELSE /\ Suspend(c, call(IF createDirectories THEN "fsMkdir"
                                      ELSE "getFile", connectionPool[source]))
                   /\ UNCHANGED last
         ELSE IF ~Has(connectionPool, source) \/ ~Has(connectionPool, target)
              THEN /\ last' = InternalError("copy", source, target,
                                            CopyFailed("not found"))
                   /\ UNCHANGED calls
              ELSE /\ Suspend(c, call("stageGet", connectionPool[source]))
                   /\ UNCHANGED last
  /\ UNCHANGED <<connectionPool, connectionContexts, credentialStore,
                 shellSessions, nodes, sessions, clock, tempFiles, exited>>

\* A copy without staging after one of its awaits: fs.copyFile, the remote
\* or local mkdir, putFile, getFile.  The result of the remote mkdir is not
\* looked at; a rejected promise ends the call.
copyAwaitSettled(c, threw) ==
  /\ NoMicrotask
  /\ calls[c].op = "copy"
  /\ calls[c].pc \in {"copyFile", "mkdir", "putFile", "fsMkdir", "getFile"}
  /\ IF threw
       THEN Finish(c, InternalError("copy", calls[c].id, calls[c].arg,
                                    CopyFailed(calls[c].pc)))
       ELSE IF calls[c].pc = "mkdir"
       THEN Suspend(c, [calls[c] EXCEPT !.pc = "putFile"]) /\ UNCHANGED last
       ELSE IF calls[c].pc = "fsMkdir"
       THEN Suspend(c, [calls[c] EXCEPT !.pc = "getFile"]) /\ UNCHANGED last
       ELSE Finish(c, Ok("copy", calls[c].id, calls[c].arg))
  /\ UNCHANGED <<connectionPool, connectionContexts, credentialStore,
                 shellSessions, nodes, sessions, clock, tempFiles, exited>>

\* A remote-to-remote copy after `await sourceSSH.getFile(tempFile, ...)`.
\* A download that fails may have created the file (partial).
stagingGetSettled(c, threw, partial) ==
  /\ At(c, "copy", "stageGet")
  /\ threw \/ ~partial
  /\ tempFiles' = IF threw /\ ~partial THEN tempFiles ELSE tempFiles \cup {c}
  /\ Suspend(c, [calls[c] EXCEPT
                   !.pc = IF threw THEN "catchUnlink"
                          ELSE IF calls[c].flag THEN "stageMkdir"
                          ELSE "stagePut",
                   !.error = IF threw THEN "stageGet" ELSE ""])
  /\ UNCHANGED <<connectionPool, connectionContexts, credentialStore,
                 shellSessions, nodes, sessions, last, clock, exited>>

\* A remote-to-remote copy after the await of the remote mkdir or of
\* targetSSH.putFile.
stagingAwaitSettled(c, threw) ==
  /\ NoMicrotask
  /\ calls[c].op = "copy"
  /\ calls[c].pc \in {"stageMkdir", "stagePut"}
  /\ Suspend(c, [calls[c] EXCEPT
                   !.pc = IF threw THEN "catchUnlink"
                          ELSE IF calls[c].pc = "stageMkdir" THEN "stagePut"
                          ELSE "unlink",
                   !.error = IF threw THEN calls[c].pc ELSE ""])
  /\ UNCHANGED <<connectionPool, connectionContexts, credentialStore,
                 shellSessions, nodes, sessions, last, clock, tempFiles,
                 exited>>

\* A remote-to-remote copy after `await fs.unlink(tempFile)` on the way out
\* of the try block.  The file is the one getFile wrote; nothing else in the
\* program names it, and the unlink of a file that exists in /tmp and
\* belongs to the process succeeds.
stagingUnlinked(c) ==
  /\ At(c, "copy", "unlink")
  /\ tempFiles' = tempFiles \ {c}
  /\ Finish(c, Ok("copy", calls[c].id, calls[c].arg))
  /\ UNCHANGED <<connectionPool, connectionContexts, credentialStore,
                 shellSessions, nodes, sessions, clock, exited>>

\* The catch block of a remote-to-remote copy: the unlink, whose own error
\* (no such file) is dropped, then the error is thrown on and wrapped.
catchUnlinked(c) ==
  /\ At(c, "copy", "catchUnlink")
  /\ tempFiles' = tempFiles \ {c}
  /\ Finish(c, InternalError("copy", calls[c].id, calls[c].arg,
                             CopyFailed(calls[c].error)))
  /\ UNCHANGED <<connectionPool, connectionContexts, credentialStore,
                 shellSessions, nodes, sessions, clock, exited>>

\* ssh_list_files up to its await: fs.readdir for the local machine, `ls`
\* on a registered connection.  The McpError of a missing connection is
\* thrown inside the try block and wrapped by its catch.
handleSSHListFiles(c, x) ==
  /\ Free(c)
  /\ IF x # Local /\ ~Has(connectionPool, x)
       THEN /\ last' = InternalError("listFiles", x, "", "List files failed")
            /\ UNCHANGED calls
       ELSE /\ Suspend(c, [Idle EXCEPT
                             !.op = "listFiles", !.pc = "ls", !.id = x,
                             !.obj = IF x = Local THEN 0 ELSE connectionPool[x]])
            /\ UNCHANGED last
  /\ UNCHANGED <<connectionPool, connectionContexts, credentialStore,
                 shellSessions, nodes, sessions, clock, tempFiles, exited>>

\* ssh_list_files after the await; failed: the promise was rejected or the
\* exit code of `ls` was not 0.
listFilesSettled(c, failed) ==
  /\ At(c, "listFiles", "ls")
  /\ IF failed
       THEN Finish(c, InternalError("listFiles", calls[c].id, "",
                                    "List files failed"))
       ELSE Finish(c, Ok("listFiles", calls[c].id, ""))
  /\ UNCHANGED <<connectionPool, connectionContexts, credentialStore,
                 shellSessions, nodes, sessions, clock, tempFiles, exited>>

\* ssh_file_info up to its await: fs.stat for the local machine, `stat` on
\* a registered connection; a missing connection as in ssh_list_files.
handleSSHFileInfo(c, x) ==
  /\ Free(c)
  /\ IF x # Local /\ ~Has(connectionPool, x)
       THEN /\ last' = InternalError("fileInfo", x, "",
                                     "Get file info failed")
            /\ UNCHANGED calls
       ELSE /\ Suspend(c, [Idle EXCEPT
                             !.op = "fileInfo", !.pc = "stat", !.id = x,
                             !.obj = IF x = Local THEN 0 ELSE connectionPool[x]])
            /\ UNCHANGED last
  /\ UNCHANGED <<connectionPool, connectionContexts, credentialStore,
                 shellSessions, nodes, sessions, clock, tempFiles, exited>>

\* ssh_file_info after the await.
fileInfoSettled(c, failed) ==
  /\ At(c, "fileInfo", "stat")
  /\ IF failed
       THEN Finish(c, InternalError("fileInfo", calls[c].id, "",
                                    "Get file info failed"))
       ELSE Finish(c, Ok("fileInfo", calls[c].id, ""))
  /\ UNCHANGED <<connectionPool, connectionContexts, credentialStore,
                 shellSessions, nodes, sessions, clock, tempFiles, exited>>

\* ---------------------------------------------------------------- shutdown

\* A shutdown with one try block around its two loops, in which the first
\* shell.close() or ssh.dispose() that throws ends the closing.
CleanupStoppingAtFailure(closeThrows, disposeThrows) ==
  /\ NoMicrotask
  /\ closeThrows \subseteq DOMAIN shellSessions
  /\ disposeThrows \subseteq DOMAIN connectionPool
  /\ IF closeThrows # {}
       THEN UNCHANGED <<sessions, shellSessions, nodes, connectionPool>>
       ELSE /\ sessions' = [j \in 1..Len(sessions) |->
                              IF \E s \in DOMAIN shellSessions : shellSessions[s] = j
                              THEN [sessions[j] EXCEPT !.closeRequested = TRUE,
                                                       !.isActive = FALSE]
                              ELSE sessions[j]]
            /\ shellSessions' = EmptyMap
            /\ IF disposeThrows # {}
                 THEN UNCHANGED <<nodes, connectionPool>>
                 ELSE /\ nodes' = [h \in 1..Len(nodes) |->
                                     IF \E x \in DOMAIN connectionPool :
                                          connectionPool[x] = h
                                     THEN [nodes[h] EXCEPT !.disposed = TRUE]
                                     ELSE nodes[h]]
                      /\ connectionPool' = EmptyMap
  /\ exited' = TRUE
  /\ UNCHANGED <<connectionContexts, credentialStore, calls, last, clock,
                 tempFiles>>

\* SIGINT: cleanup() and process.exit(0).  The two loops of cleanup have no
\* await.  Each session is closed, marked inactive and deleted inside a try
\* block of its own, each connection disposed and deleted likewise;
\* closeThrows and disposeThrows are the ids whose shell.close() and
\* ssh.dispose() throw.  connectionContexts is left as it is.
cleanup(closeThrows, disposeThrows) ==
  /\ NoMicrotask
  /\ closeThrows \subseteq DOMAIN shellSessions
  /\ disposeThrows \subseteq DOMAIN connectionPool
  /\ sessions' = [j \in 1..Len(sessions) |->
                    IF \E s \in DOMAIN shellSessions \ closeThrows :
                         shellSessions[s] = j
                    THEN [sessions[j] EXCEPT !.closeRequested = TRUE,
                                             !.isActive = FALSE]
                    ELSE sessions[j]]
  /\ shellSessions' = [s \in closeThrows |-> shellSessions[s]]
  /\ nodes' = [h \in 1..Len(nodes) |->
                 IF \E x \in DOMAIN connectionPool \ disposeThrows :
                      connectionPool[x] = h
                 THEN [nodes[h] EXCEPT !.disposed = TRUE]
                 ELSE nodes[h]]
  /\ connectionPool' = [x \in disposeThrows |-> connectionPool[x]]
  /\ exited' = TRUE
  /\ UNCHANGED <<connectionContexts, credentialStore, calls, last, clock,
                 tempFiles>>

\* ------------------------------------------------------- the specification

\* Ids that no handler ever registers.
UnknownConnId == "c0"
UnknownSessId == "s0"
UnknownCredId == "k0"

\* The connection references of the file tools: the local machine, a
\* connectionId and one that is never registered.
FileRefs == {Local} \cup ConnIds \cup {UnknownConnId}

\* A step of the process: while it has not exited, a tool call, the
\* completion of what a handler awaits, a timer, a channel event, or the
\* SIGINT that ends it.
Next ==
  /\ ~exited
  /\ \/ Tick
     \/ \E c \in Calls, x \in ConnIds, p \in Params : handleSSHConnect(c, x, p)
     \/ \E c \in Calls, connected \in BOOLEAN : sshConnectSettled(c, connected)
     \/ \E x \in ConnIds, disposeThrows \in BOOLEAN :
          handleSSHDisconnect(x, disposeThrows)
     \/ \E k \in CredIds, p \in Params : handleSaveCredential(k, p)
     \/ \E k \in CredIds : handleDeleteCredential(k)
     \/ handleListCredentials
     \/ \E c \in Calls, k \in CredIds, x \in ConnIds :
          handleConnectWithCredential(c, k, x)
     \/ \E c \in Calls, connected \in BOOLEAN :
          connectWithCredentialSettled(c, connected)
     \/ \E c \in Calls, x \in ConnIds, s \in SessIds :
          handleStartInteractiveShell(c, x, s)
     \/ \E c \in Calls, opened \in BOOLEAN : requestShellSettled(c, opened)
     \/ \E j \in 1..MaxSessions : shellOnData(j)
     \/ \E j \in 1..MaxSessions : shellOnClose(j)
     \/ \E c \in Calls, s \in SessIds, clearBuffer \in BOOLEAN :
          handleReadOutput(c, s, clearBuffer)
     \/ \E c \in Calls : readOutputTimeout(c)
     \/ \E c \in Calls : readOutputResumed(c)
     \/ \E c \in Calls, s \in SessIds, input \in Inputs,
           simulateTyping \in BOOLEAN, writeThrows \in BOOLEAN :
          handleSendInput(c, s, input, simulateTyping, writeThrows)
     \/ \E c \in Calls, writeThrows \in BOOLEAN : typingDelayElapsed(c, writeThrows)
     \/ \E s \in SessIds, closeThrows \in BOOLEAN :
          handleCloseInteractiveShell(s, closeThrows)
     \/ \E c \in Calls, x \in ConnIds, cwd \in Paths \cup {NoDir} :
          handleSSHExecute(c, x, cwd)
     \/ \E c \in Calls, threw \in BOOLEAN : execCommandSettled(c, threw)
     \/ \E c \in Calls, x \in ConnIds, path \in Paths :
          handleSetWorkingDirectory(c, x, path)
     \/ \E c \in Calls, probe \in {"exists", "absent", "threw"} :
          workingDirectoryProbed(c, probe)
     \/ \E c \in Calls, x \in ConnIds : handleGetWorkingDirectory(c, x)
     \/ \E c \in Calls, pwd \in {"printed", "failed", "threw"} : pwdSettled(c, pwd)
     \/ \E c \in Calls, source \in FileRefs, target \in FileRefs,
           createDirectories \in BOOLEAN :
          handleSSHCopyFile(c, source, target, createDirectories)
     \/ \E c \in Calls, threw \in BOOLEAN : copyAwaitSettled(c, threw)
     \/ \E c \in Calls, threw \in BOOLEAN, partial \in BOOLEAN :
          stagingGetSettled(c, threw, partial)
     \/ \E c \in Calls, threw \in BOOLEAN : stagingAwaitSettled(c, threw)
     \/ \E c \in Calls : stagingUnlinked(c)
     \/ \E c \in Calls : catchUnlinked(c)
     \/ \E c \in Calls, x \in FileRefs : handleSSHListFiles(c, x)
     \/ \E c \in Calls, failed \in BOOLEAN : listFilesSettled(c, failed)
     \/ \E c \in Calls, x \in FileRefs : handleSSHFileInfo(c, x)
     \/ \E c \in Calls, failed \in BOOLEAN : fileInfoSettled(c, failed)
     \/ \E closeThrows \in SUBSET SessIds, disposeThrows \in SUBSET ConnIds :
          cleanup(closeThrows, disposeThrows)

Spec == Init /\ [][Next]_vars

\* The life cycle of the three maps under concurrent callers: the handlers
\* that create and remove connections, credentials and sessions.
NextRegistry ==
  \/ \E c \in Calls, x \in ConnIds, p \in Params : handleSSHConnect(c, x, p)
  \/ \E c \in Calls, connected \in BOOLEAN : sshConnectSettled(c, connected)
  \/ \E x \in ConnIds, disposeThrows \in BOOLEAN :
       handleSSHDisconnect(x, disposeThrows)
  \/ \E k \in CredIds, p \in Params : handleSaveCredential(k, p)
  \/ \E k \in CredIds : handleDeleteCredential(k)
  \/ \E c \in Calls, k \in CredIds, x \in ConnIds :
       handleConnectWithCredential(c, k, x)
  \/ \E c \in Calls, connected \in BOOLEAN :
       connectWithCredentialSettled(c, connected)
  \/ \E c \in Calls, x \in ConnIds, s \in SessIds :
       handleStartInteractiveShell(c, x, s)
  \/ \E c \in Calls, opened \in BOOLEAN : requestShellSettled(c, opened)
  \/ \E s \in SessIds, closeThrows \in BOOLEAN :
       handleCloseInteractiveShell(s, closeThrows)

SpecRegistry == Init /\ [][NextRegistry]_vars

\* A client that waits for each response before its next call.
Sequential == {1}

\* A password, and nothing else, as authentication material.
PasswordOnly == {p \in Params : p.password # "" /\ p.privateKeyPath = ""}

\* A sequential client that builds the maps up and tears them down with the
\* handlers that register and remove, and calls every handler that looks an
\* id up with ids that are not registered: ids that were never registered,
\* ids not yet registered and ids already removed.
NextAbsent ==
  \/ \E c \in Sequential, x \in ConnIds, p \in PasswordOnly :
       handleSSHConnect(c, x, p)
  \/ \E c \in Sequential, connected \in BOOLEAN : sshConnectSettled(c, connected)
  \/ \E x \in ConnIds \cup {UnknownConnId} : handleSSHDisconnect(x, FALSE)
  \/ \E k \in CredIds, p \in PasswordOnly : handleSaveCredential(k, p)
  \/ \E k \in CredIds \cup {UnknownCredId} : handleDeleteCredential(k)
  \/ \E c \in Sequential, k \in CredIds \cup {UnknownCredId}, x \in ConnIds :
       handleConnectWithCredential(c, k, x)
  \/ \E c \in Sequential, connected \in BOOLEAN :
       connectWithCredentialSettled(c, connected)
  \/ \E c \in Sequential, x \in ConnIds \cup {UnknownConnId}, s \in SessIds :
       handleStartInteractiveShell(c, x, s)
  \/ \E c \in Sequential, opened \in BOOLEAN : requestShellSettled(c, opened)
  \/ \E s \in SessIds \cup {UnknownSessId} :
       handleCloseInteractiveShell(s, FALSE)
  \/ \E c \in Sequential, s \in SessIds \cup {UnknownSessId},
         clearBuffer \in BOOLEAN :
       ~Has(shellSessions, s) /\ handleReadOutput(c, s, clearBuffer)
  \/ \E c \in Sequential, s \in SessIds \cup {UnknownSessId},
         input \in Inputs, simulateTyping \in BOOLEAN :
       ~Has(shellSessions, s)
       /\ handleSendInput(c, s, input, simulateTyping, FALSE)
  \/ \E c \in Sequential, x \in ConnIds \cup {UnknownConnId},
         cwd \in Paths \cup {NoDir} :
       ~Has(connectionPool, x) /\ handleSSHExecute(c, x, cwd)
  \/ \E c \in Sequential, x \in ConnIds \cup {UnknownConnId}, path \in Paths :
       ~Has(connectionContexts, x) /\ handleSetWorkingDirectory(c, x, path)
  \/ \E c \in Sequential, x \in ConnIds \cup {UnknownConnId} :
       ~Has(connectionContexts, x) /\ handleGetWorkingDirectory(c, x)

SpecAbsent == Init /\ [][NextAbsent]_vars

\* A sequential client on one connection: it starts, reads and closes
\* sessions while their channels deliver data and close.
NextSession ==
  \/ \E c \in Sequential, x \in ConnIds, p \in PasswordOnly :
       handleSSHConnect(c, x, p)
  \/ \E c \in Sequential, connected \in BOOLEAN : sshConnectSettled(c, connected)
  \/ \E c \in Sequential, x \in ConnIds, s \in SessIds :
       handleStartInteractiveShell(c, x, s)
  \/ \E c \in Sequential, opened \in BOOLEAN : requestShellSettled(c, opened)
  \/ \E j \in 1..MaxSessions : shellOnData(j)
  \/ \E j \in 1..MaxSessions : shellOnClose(j)
  \/ \E c \in Sequential, s \in SessIds, clearBuffer \in BOOLEAN :
       handleReadOutput(c, s, clearBuffer)
  \/ \E c \in Sequential : readOutputTimeout(c)
  \/ \E c \in Sequential : readOutputResumed(c)
  \/ \E s \in SessIds, closeThrows \in BOOLEAN :
       handleCloseInteractiveShell(s, closeThrows)

SpecSession == Init /\ [][NextSession]_vars

\* The same, with the event loop running what is due: a timer that has been
\* set fires and a queued microtask runs.
SpecSessionFair ==
  /\ Init
  /\ [][NextSession]_vars
  /\ \A c \in Sequential :
       WF_vars(readOutputTimeout(c)) /\ WF_vars(readOutputResumed(c))

\* A sequential client on one connection: it starts sessions, sends input
\* to them and closes them while their channels close.
NextSend ==
  \/ \E c \in Sequential, x \in ConnIds, p \in PasswordOnly :
       handleSSHConnect(c, x, p)
  \/ \E c \in Sequential, connected \in BOOLEAN : sshConnectSettled(c, connected)
  \/ \E c \in Sequential, x \in ConnIds, s \in SessIds :
       handleStartInteractiveShell(c, x, s)
  \/ \E c \in Sequential, opened \in BOOLEAN : requestShellSettled(c, opened)
  \/ \E j \in 1..MaxSessions : shellOnClose(j)
  \/ \E c \in Sequential, s \in SessIds, input \in Inputs,
         simulateTyping \in BOOLEAN, writeThrows \in BOOLEAN :
       handleSendInput(c, s, input, simulateTyping, writeThrows)
  \/ \E c \in Sequential, writeThrows \in BOOLEAN :
       typingDelayElapsed(c, writeThrows)
  \/ \E s \in SessIds, closeThrows \in BOOLEAN :
       handleCloseInteractiveShell(s, closeThrows)

SpecSend == Init /\ [][NextSend]_vars

\* The credential store under concurrent callers while time passes:
\* credentials are saved, listed, deleted and connected with, and the
\* connections made are closed.
NextCredentials ==
  \/ Tick
  \/ \E k \in CredIds, p \in Params : handleSaveCredential(k, p)
  \/ \E k \in CredIds : handleDeleteCredential(k)
  \/ handleListCredentials
  \/ \E c \in Calls, k \in CredIds, x \in ConnIds :
       handleConnectWithCredential(c, k, x)
  \/ \E c \in Calls, connected \in BOOLEAN :
       connectWithCredentialSettled(c, connected)
  \/ \E x \in ConnIds, disposeThrows \in BOOLEAN :
       handleSSHDisconnect(x, disposeThrows)

SpecCredentials == Init /\ [][NextCredentials]_vars

\* The directory the client sets on the connection of context h: one on the
\* first connection, another on those made after it.
PathOf(h) == IF h = 1 THEN "/a" ELSE "/b"

\* Connections opened and closed under one id by concurrent callers that
\* set and get the working directory, each connection being given its own
\* directory.
NextWorkdir ==
  \/ \E c \in Calls, x \in ConnIds, p \in PasswordOnly :
       handleSSHConnect(c, x, p)
  \/ \E c \in Calls, connected \in BOOLEAN : sshConnectSettled(c, connected)
  \/ \E x \in ConnIds, disposeThrows \in BOOLEAN :
       handleSSHDisconnect(x, disposeThrows)
  \/ \E c \in Calls, x \in ConnIds :
       /\ Has(connectionContexts, x)
       /\ handleSetWorkingDirectory(c, x, PathOf(connectionContexts[x]))
  \/ \E c \in Calls, probe \in {"exists", "absent", "threw"} :
       workingDirectoryProbed(c, probe)
  \/ \E c \in Calls, x \in ConnIds : handleGetWorkingDirectory(c, x)
  \/ \E c \in Calls, pwd \in {"printed", "failed", "threw"} : pwdSettled(c, pwd)

SpecWorkdir == Init /\ [][NextWorkdir]_vars

\* A sequential client on one connection that sets and gets the working
\* directory and executes commands, with a cwd and without.
NextExecute ==
  \/ \E c \in Sequential, x \in ConnIds, p \in PasswordOnly :
       handleSSHConnect(c, x, p)
  \/ \E c \in Sequential, connected \in BOOLEAN : sshConnectSettled(c, connected)
  \/ \E x \in ConnIds : handleSSHDisconnect(x, FALSE)
  \/ \E c \in Sequential, x \in ConnIds, path \in Paths :
       handleSetWorkingDirectory(c, x, path)
  \/ \E c \in Sequential, probe \in {"exists", "absent", "threw"} :
       workingDirectoryProbed(c, probe)
  \/ \E c \in Sequential, x \in ConnIds : handleGetWorkingDirectory(c, x)
  \/ \E c \in Sequential, pwd \in {"printed", "failed", "threw"} :
       pwdSettled(c, pwd)
  \/ \E c \in Sequential, x \in ConnIds, cwd \in Paths \cup {NoDir} :
       handleSSHExecute(c, x, cwd)
  \/ \E c \in Sequential, threw \in BOOLEAN : execCommandSettled(c, threw)

SpecExecute == Init /\ [][NextExecute]_vars

\* Two connectionIds and two sessionIds.
ConnIds2 == ConnIds \cup {"c2"}
SessIds2 == SessIds \cup {"s2"}

\* A sequential client that opens connections and starts and closes sessions
\* on them, channels that close, and the SIGINT that ends the process.
NextShutdown ==
  \/ \E c \in Sequential, x \in ConnIds2, p \in PasswordOnly :
       ~exited /\ handleSSHConnect(c, x, p)
  \/ \E c \in Sequential, connected \in BOOLEAN :
       ~exited /\ sshConnectSettled(c, connected)
  \/ \E c \in Sequential, x \in ConnIds2, s \in SessIds2 :
       ~exited /\ handleStartInteractiveShell(c, x, s)
  \/ \E c \in Sequential, opened \in BOOLEAN :
       ~exited /\ requestShellSettled(c, opened)
  \/ \E j \in 1..MaxSessions : ~exited /\ shellOnClose(j)
  \/ \E s \in SessIds2, closeThrows \in BOOLEAN :
       ~exited /\ handleCloseInteractiveShell(s, closeThrows)
  \/ \E closeThrows \in SUBSET SessIds2, disposeThrows \in SUBSET ConnIds2 :
       ~exited /\ cleanup(closeThrows, disposeThrows)

SpecShutdown == Init /\ [][NextShutdown]_vars

\* Connections that come and go, and the file tools, calls overlapping.
NextFiles ==
  \/ \E c \in Calls, x \in ConnIds, p \in PasswordOnly :
       handleSSHConnect(c, x, p)
  \/ \E c \in Calls, connected \in BOOLEAN : sshConnectSettled(c, connected)
  \/ \E x \in ConnIds : handleSSHDisconnect(x, FALSE)
  \/ \E c \in Calls, source \in FileRefs, target \in FileRefs,
        createDirectories \in BOOLEAN :
       handleSSHCopyFile(c, source, target, createDirectories)
  \/ \E c \in Calls, threw \in BOOLEAN : copyAwaitSettled(c, threw)
  \/ \E c \in Calls, threw \in BOOLEAN, partial \in BOOLEAN :
       stagingGetSettled(c, threw, partial)
  \/ \E c \in Calls, threw \in BOOLEAN : stagingAwaitSettled(c, threw)
  \/ \E c \in Calls : stagingUnlinked(c)
  \/ \E c \in Calls : catchUnlinked(c)
  \/ \E c \in Calls, x \in FileRefs : handleSSHListFiles(c, x)
  \/ \E c \in Calls, failed \in BOOLEAN : listFilesSettled(c, failed)
  \/ \E c \in Calls, x \in FileRefs : handleSSHFileInfo(c, x)
  \/ \E c \in Calls, failed \in BOOLEAN : fileInfoSettled(c, failed)

SpecFiles == Init /\ [][NextFiles]_vars

\* A sequential client that connects, starts a session, sends input to it
\* and disconnects, and the channel that closes.
NextDetached ==
  \/ \E c \in Sequential, x \in ConnIds, p \in PasswordOnly :
       handleSSHConnect(c, x, p)
  \/ \E c \in Sequential, connected \in BOOLEAN :
       sshConnectSettled(c, connected)
  \/ \E x \in ConnIds : handleSSHDisconnect(x, FALSE)
  \/ \E c \in Sequential, x \in ConnIds, s \in SessIds :
       handleStartInteractiveShell(c, x, s)
  \/ \E c \in Sequential, opened \in BOOLEAN : requestShellSettled(c, opened)
  \/ \E j \in 1..MaxSessions : shellOnClose(j)
  \/ \E c \in Sequential, s \in SessIds, input \in Inputs,
        simulateTyping \in BOOLEAN, writeThrows \in BOOLEAN :
       handleSendInput(c, s, input, simulateTyping, writeThrows)
  \/ \E c \in Sequential, writeThrows \in BOOLEAN :
       typingDelayElapsed(c, writeThrows)

SpecDetached == Init /\ [][NextDetached]_vars

\* A sequential client that connects once and then uses the tools that have
\* to do with a session, a connection or a credential, while channels
\* deliver data and close.
NextBuffer ==
  \/ \E c \in Sequential, x \in ConnIds, p \in PasswordOnly :
       Len(nodes) = 0 /\ handleSSHConnect(c, x, p)
  \/ \E c \in Sequential, connected \in BOOLEAN :
       sshConnectSettled(c, connected)
  \/ \E x \in ConnIds : handleSSHDisconnect(x, FALSE)
  \/ \E k \in CredIds, p \in PasswordOnly : handleSaveCredential(k, p)
  \/ \E k \in CredIds : handleDeleteCredential(k)
  \/ \E c \in Sequential, x \in ConnIds, s \in SessIds :
       handleStartInteractiveShell(c, x, s)
  \/ \E c \in Sequential, opened \in BOOLEAN : requestShellSettled(c, opened)
  \/ \E j \in 1..MaxSessions : shellOnData(j)
  \/ \E j \in 1..MaxSessions : shellOnClose(j)
  \/ \E c \in Sequential, s \in SessIds, clearBuffer \in BOOLEAN :
       handleReadOutput(c, s, clearBuffer)
  \/ \E c \in Sequential : readOutputTimeout(c)
  \/ \E c \in Sequential : readOutputResumed(c)
  \/ \E c \in Sequential, s \in SessIds :
       handleSendInput(c, s, <<7, 8>>, FALSE, FALSE)
  \/ \E s \in SessIds : handleCloseInteractiveShell(s, FALSE)

SpecBuffer == Init /\ [][NextBuffer]_vars

\* Two sessions on one connection and callers whose calls overlap: one types
\* into session s1 while the other reads session s2.
NextTyping ==
  \/ \E c \in Calls, x \in ConnIds, p \in PasswordOnly :
       Len(nodes) = 0 /\ handleSSHConnect(c, x, p)
  \/ \E c \in Calls : sshConnectSettled(c, TRUE)
  \/ \E c \in Calls, x \in ConnIds, s \in SessIds2 :
       handleStartInteractiveShell(c, x, s)
  \/ \E c \in Calls : requestShellSettled(c, TRUE)
  \/ \E j \in 1..MaxSessions : shellOnData(j)
  \/ \E c \in Calls, s \in SessIds2 \ SessIds : handleReadOutput(c, s, TRUE)
  \/ \E c \in Calls : readOutputTimeout(c)
  \/ \E c \in Calls : readOutputResumed(c)
  \/ \E c \in Calls, s \in SessIds :
       handleSendInput(c, s, <<7, 8>>, TRUE, FALSE)
  \/ \E c \in Calls : typingDelayElapsed(c, FALSE)

SpecTyping == Init /\ [][NextTyping]_vars

\* What a failed call must leave alone: everything but the response.
NoStateChange ==
  UNCHANGED <<connectionPool, connectionContexts, credentialStore,
              shellSessions, nodes, sessions, calls, clock, tempFiles,
              exited>>

\* ------------------------------------------------------------------ claims

\* C1 (as amended): a create whose id is present fails and leaves every entry
\* as it was: ssh_connect, ssh_connect_with_credential and
\* ssh_save_credential with AlreadyExists; ssh_start_interactive_shell with
\* AlreadyExists when its connectionId is registered and with NotFound when
\* it is not.
C1_DuplicateCreateRejected ==
  [][/\ \A c \in Calls, x \in ConnIds, p \in Params :
          handleSSHConnect(c, x, p) /\ Has(connectionPool, x)
          => AlreadyExists(last') /\ NoStateChange
     /\ \A c \in Calls, k \in CredIds, x \in ConnIds :
          handleConnectWithCredential(c, k, x) /\ Has(connectionPool, x)
          => AlreadyExists(last') /\ NoStateChange
     /\ \A k \in CredIds, p \in Params :
          handleSaveCredential(k, p) /\ Has(credentialStore, k)
          => AlreadyExists(last') /\ NoStateChange
     /\ \A c \in Calls, x \in ConnIds, s \in SessIds :
          handleStartInteractiveShell(c, x, s) /\ Has(shellSessions, s)
          => /\ IF Has(connectionPool, x) THEN AlreadyExists(last')
                                          ELSE NotFound(last')
             /\ NoStateChange]_vars

\* C1, witness: a second ssh_start_interactive_shell with the id of a
\* registered session was answered AlreadyExists, with a credential stored
\* and the connection registered.
C1_Witness ==
  /\ last.op = "startShell" /\ AlreadyExists(last)
  /\ Has(shellSessions, last.id)
  /\ Has(connectionPool, last.arg)
  /\ credentialStore # EmptyMap

\* C1 as stated: every create whose id is present fails with AlreadyExists
\* and leaves the entries as they were.
C1_Original ==
  [][/\ \A c \in Calls, x \in ConnIds, p \in Params :
          handleSSHConnect(c, x, p) /\ Has(connectionPool, x)
          => AlreadyExists(last') /\ NoStateChange
     /\ \A c \in Calls, k \in CredIds, x \in ConnIds :
          handleConnectWithCredential(c, k, x) /\ Has(connectionPool, x)
          => AlreadyExists(last') /\ NoStateChange
     /\ \A k \in CredIds, p \in Params :
          handleSaveCredential(k, p) /\ Has(credentialStore, k)
          => AlreadyExists(last') /\ NoStateChange
     /\ \A c \in Calls, x \in ConnIds, s \in SessIds :
          handleStartInteractiveShell(c, x, s) /\ Has(shellSessions, s)
          => AlreadyExists(last') /\ NoStateChange]_vars

\* C2: a handle stored in connectionPool under an id is never replaced by
\* another handle; the id is first removed (a Close).  Two Opens of one id
\* that are in flight together do not both register.
C2_HandleNeverReplaced ==
  [][\A x \in ConnIds :
       Has(connectionPool, x) /\ Has(connectionPool', x)
       => connectionPool'[x] = connectionPool[x]]_vars

\* C3: a session set in shellSessions under an id is never replaced by
\* another session; the id is first removed (a Close).  Two Starts of one id
\* that are in flight together do not both register.
C3_SessionNeverReplaced ==
  [][\A s \in SessIds :
       Has(shellSessions, s) /\ Has(shellSessions', s)
       => shellSessions'[s] = shellSessions[s]]_vars

\* The ids a handler can be called with.
ConnRefs == ConnIds \cup {UnknownConnId}
SessRefs == SessIds \cup {UnknownSessId}
CredRefs == CredIds \cup {UnknownCredId}

\* C4, the handlers named in it other than ssh_connect_with_credential: called
\* with an id that is not in the map they look it up in, each fails with
\* NotFound and changes nothing.
AbsentIdNotFound ==
  /\ \A x \in ConnRefs :
       ~Has(connectionPool, x) /\ handleSSHDisconnect(x, FALSE)
       => NotFound(last') /\ NoStateChange
  /\ \A c \in Calls, x \in ConnRefs, cwd \in Paths \cup {NoDir} :
       ~Has(connectionPool, x) /\ handleSSHExecute(c, x, cwd)
       => NotFound(last') /\ NoStateChange
  /\ \A c \in Calls, x \in ConnRefs, path \in Paths :
       ~Has(connectionContexts, x) /\ handleSetWorkingDirectory(c, x, path)
       => NotFound(last') /\ NoStateChange
  /\ \A c \in Calls, x \in ConnRefs :
       ~Has(connectionContexts, x) /\ handleGetWorkingDirectory(c, x)
       => NotFound(last') /\ NoStateChange
  /\ \A c \in Calls, x \in ConnRefs, s \in SessRefs :
       ~Has(connectionPool, x) /\ handleStartInteractiveShell(c, x, s)
       => NotFound(last') /\ NoStateChange
  /\ \A c \in Calls, s \in SessRefs, input \in Inputs, typing \in BOOLEAN :
       ~Has(shellSessions, s) /\ handleSendInput(c, s, input, typing, FALSE)
       => NotFound(last') /\ NoStateChange
  /\ \A c \in Calls, s \in SessRefs, clearBuffer \in BOOLEAN :
       ~Has(shellSessions, s) /\ handleReadOutput(c, s, clearBuffer)
       => NotFound(last') /\ NoStateChange
  /\ \A s \in SessRefs :
       ~Has(shellSessions, s) /\ handleCloseInteractiveShell(s, FALSE)
       => NotFound(last') /\ NoStateChange
  /\ \A k \in CredRefs :
       ~Has(credentialStore, k) /\ handleDeleteCredential(k)
       => NotFound(last') /\ NoStateChange

\* C4 (as amended): a handler called with an id that is not in the map it
\* looks it up in fails with NotFound and changes nothing; but
\* ssh_connect_with_credential with a credentialId that is not stored fails
\* with NotFound only when its connectionId is not registered, and with
\* AlreadyExists when it is, changing nothing either way.
C4_AbsentIdNotFound ==
  [][/\ AbsentIdNotFound
     /\ \A c \in Calls, k \in CredRefs, x \in ConnRefs :
          ~Has(credentialStore, k) /\ handleConnectWithCredential(c, k, x)
          => /\ IF Has(connectionPool, x) THEN AlreadyExists(last')
                                          ELSE NotFound(last')
             /\ NoStateChange]_vars

\* C4, witness: a call with an id that was never registered was answered
\* NotFound while a connection, a session and a credential are registered.
C4_Witness ==
  /\ NotFound(last)
  /\ last.id \in {UnknownConnId, UnknownSessId, UnknownCredId}
  /\ connectionPool # EmptyMap
  /\ connectionContexts # EmptyMap
  /\ shellSessions # EmptyMap
  /\ credentialStore # EmptyMap

\* C4 as stated: every handler named in it, ssh_connect_with_credential with
\* a credentialId that is not stored among them, fails with NotFound and
\* changes nothing.
C4_Original ==
  [][/\ AbsentIdNotFound
     /\ \A c \in Calls, k \in CredRefs, x \in ConnRefs :
          ~Has(credentialStore, k) /\ handleConnectWithCredential(c, k, x)
          => NotFound(last') /\ NoStateChange]_vars

\* C8: ssh_close_interactive_shell of a registered session requests the
\* channel's closure, sets isActive to false and removes the entry; of an id
\* that is not registered it fails with NotFound; and a Start of an id that
\* is not registered (so also after its Close) is not refused as a duplicate.
C8_CloseRemovesSession ==
  [][/\ \A s \in SessIds, closeThrows \in BOOLEAN :
          handleCloseInteractiveShell(s, closeThrows) /\ Has(shellSessions, s)
          => /\ sessions'[shellSessions[s]].closeRequested
             /\ ~sessions'[shellSessions[s]].isActive
             /\ ~Has(shellSessions', s)
             /\ last'.code = "ok"
     /\ \A s \in SessIds, closeThrows \in BOOLEAN :
          handleCloseInteractiveShell(s, closeThrows) /\ ~Has(shellSessions, s)
          => NotFound(last') /\ NoStateChange
     /\ \A c \in Calls, x \in ConnIds, s \in SessIds :
          /\ handleStartInteractiveShell(c, x, s)
          /\ ~Has(shellSessions, s) /\ Has(connectionPool, x)
          => calls'[c].op = "startShell"]_vars

\* The text of the data events session object j has received, in order.
Received(j) == [k \in 1..sessions[j].nData |-> k]

\* C5: for every session the texts returned by its completed clearing reads,
\* in order, followed by its buffer, are the texts of all the data events it
\* has received: a clearing read loses nothing.
C5_ClearingReadLosesNothing ==
  \A j \in 1..Len(sessions) :
    sessions[j].delivered \o sessions[j].buffer = Received(j)

\* C6: the first read of a session that has received data, with
\* clearBuffer set, returns at once all the text received, in order, and
\* empties the buffer; a read that finds the buffer empty does not return at
\* once; and a waiting read, as long as its session receives nothing, stays
\* waiting until its timer fires, and then returns the empty text.
C6_AppendThenRead ==
  [][/\ \A c \in Calls, s \in SessIds :
          /\ Has(shellSessions, s)
          /\ ~sessions[shellSessions[s]].wasRead
          /\ sessions[shellSessions[s]].nData > 0
          /\ handleReadOutput(c, s, TRUE)
          => /\ last' = ReadResponse(s, Received(shellSessions[s]))
             /\ calls' = calls
             /\ sessions'[shellSessions[s]].buffer = <<>>
     /\ \A c \in Calls, s \in SessIds, clearBuffer \in BOOLEAN :
          /\ Has(shellSessions, s)
          /\ sessions[shellSessions[s]].buffer = <<>>
          /\ handleReadOutput(c, s, clearBuffer)
          => /\ At(c, "read", "wait")'
             /\ last' = last
     /\ \A c \in Calls :
          /\ At(c, "read", "wait")
          /\ sessions'[calls[c].obj].nData = calls[c].n0
          => \/ calls'[c] = calls[c]
             \/ /\ readOutputTimeout(c)
                /\ last' = ReadResponse(calls[c].id, <<>>)]_vars

\* C6, witness: a session received two data events and then a first,
\* clearing read that returned both texts; the read after it waited with
\* nothing arriving, its timer fired and it returned the empty text.
C6_Witness ==
  /\ last.op = "read" /\ last.code = "ok" /\ last.out = <<>>
  /\ Has(shellSessions, last.id)
  /\ sessions[shellSessions[last.id]].delivered = <<1, 2>>
  /\ sessions[shellSessions[last.id]].nData = 2
  /\ sessions[shellSessions[last.id]].buffer = <<>>

\* C7: when the channel of an active session closes, the session becomes
\* inactive and its entry and buffer stay; from then on a read of it returns
\* the buffered text, a Start with its sessionId fails with AlreadyExists,
\* and a Close of it succeeds and removes the entry.
C7_UnexpectedCloseKeepsSession ==
  [][/\ \A j \in 1..MaxSessions :
          shellOnClose(j)
          => /\ ~sessions'[j].isActive
             /\ sessions'[j].buffer = sessions[j].buffer
             /\ shellSessions' = shellSessions
     /\ \A c \in Calls, s \in SessIds, clearBuffer \in BOOLEAN :
          /\ Has(shellSessions, s)
          /\ sessions[shellSessions[s]].closed
          /\ sessions[shellSessions[s]].buffer # <<>>
          /\ handleReadOutput(c, s, clearBuffer)
          => last' = ReadResponse(s, sessions[shellSessions[s]].buffer)
     /\ \A c \in Calls, x \in ConnIds, s \in SessIds :
          /\ Has(shellSessions, s)
          /\ sessions[shellSessions[s]].closed
          /\ handleStartInteractiveShell(c, x, s)
          => AlreadyExists(last')
     /\ \A s \in SessIds, closeThrows \in BOOLEAN :
          /\ Has(shellSessions, s)
          /\ sessions[shellSessions[s]].closed
          /\ handleCloseInteractiveShell(s, closeThrows)
          => last'.code = "ok" /\ ~Has(shellSessions', s)]_vars

\* C9: ssh_send_input on a registered session whose isActive is false fails
\* with InvalidState and changes nothing: nothing is written to the channel,
\* and the buffer and the entry are as they were.
C9_SendToInactiveRejected ==
  [][\A c \in Calls, s \in SessIds, input \in Inputs,
        simulateTyping \in BOOLEAN, writeThrows \in BOOLEAN :
       /\ Has(shellSessions, s)
       /\ ~sessions[shellSessions[s]].isActive
       /\ handleSendInput(c, s, input, simulateTyping, writeThrows)
       => InvalidState(last') /\ NoStateChange]_vars

\* C9, witness: a send was refused as not active on a registered session,
\* inactive since its channel closed, to which input had been written before.
C9_Witness ==
  /\ last.op = "send" /\ InvalidState(last)
  /\ Has(shellSessions, last.id)
  /\ ~sessions[shellSessions[last.id]].isActive
  /\ sessions[shellSessions[last.id]].written # <<>>

\* What the send of record c has written to its channel so far, the channel
\* having no other writer.
WrittenBy(c) ==
  SubSeq(sessions[calls[c].obj].written, calls[c].n0 + 1,
         Len(sessions[calls[c].obj].written))

IsPrefix(t, u) == Len(t) <= Len(u) /\ SubSeq(u, 1, Len(t)) = t

\* C10: a send without simulateTyping appends its input to what the channel
\* was written; a send with simulateTyping has at every moment written a
\* prefix of its input, and when it returns it has written its input: the
\* same characters in the same order, none dropped and none twice.
C10_TypingWritesSameText ==
  [][/\ \A c \in Calls, s \in SessIds, input \in Inputs :
          /\ Has(shellSessions, s)
          /\ sessions[shellSessions[s]].isActive
          /\ handleSendInput(c, s, input, FALSE, FALSE)
          => /\ sessions'[shellSessions[s]].written =
                  sessions[shellSessions[s]].written \o input
             /\ last' = Ok("send", s, "")
     /\ \A c \in Calls, s \in SessIds :
          /\ Has(shellSessions, s)
          /\ sessions[shellSessions[s]].isActive
          /\ handleSendInput(c, s, <<>>, TRUE, FALSE)
          => sessions' = sessions /\ last' = Ok("send", s, "")
     /\ \A c \in Calls :
          At(c, "send", "typing")' => IsPrefix(WrittenBy(c), calls[c].input)'
     /\ \A c \in Calls :
          At(c, "send", "typing") /\ calls'[c] = Idle /\ last'.code = "ok"
          => sessions' = sessions /\ WrittenBy(c) = calls[c].input]_vars

\* C10, witness: a send with simulateTyping of a two-character input, to a
\* channel that had been written before, has written both characters.
C10_Witness ==
  \E c \in Calls :
    /\ At(c, "send", "typing")
    /\ calls[c].n0 > 0
    /\ calls[c].input = <<7, 8>>
    /\ WrittenBy(c) = <<7, 8>>

\* C11: ssh_disconnect of a registered connection removes its entry from
\* connectionPool and from connectionContexts and returns, whether or not
\* releasing the transport (ssh.dispose()) throws.
C11_DisconnectAlwaysRemoves ==
  [][\A x \in ConnIds, disposeThrows \in BOOLEAN :
       Has(connectionPool, x) /\ handleSSHDisconnect(x, disposeThrows)
       => /\ ~Has(connectionPool', x)
          /\ ~Has(connectionContexts', x)
          /\ last'.code = "ok"]_vars

\* C12: ssh_connect with a connectionId that is not registered and with
\* neither a password nor a private key fails with InvalidParams, starts no
\* connect and leaves the maps as they were.
C12_NoAuthenticationIsInvalidParams ==
  [][\A c \in Calls, x \in ConnIds, p \in Params :
       /\ ~Has(connectionPool, x)
       /\ p.password = "" /\ p.privateKeyPath = ""
       /\ handleSSHConnect(c, x, p)
       => last'.code = "InvalidParams" /\ NoStateChange]_vars

\* C13: ssh_connect with both a password and a private key fails with
\* InvalidParams, starts no connect and registers no connection.
C13_BothMethodsRejected ==
  [][\A c \in Calls, x \in ConnIds, p \in Params :
       /\ p.password # "" /\ p.privateKeyPath # ""
       /\ handleSSHConnect(c, x, p)
       => last'.code = "InvalidParams" /\ NoStateChange]_vars

\* C14: every credential in credentialStore has a password or a private key,
\* and ssh_save_credential with neither fails with InvalidParams and changes
\* nothing.
C14_CredentialHasMaterial ==
  [][/\ \A k \in DOMAIN credentialStore' :
          \/ credentialStore'[k].password # ""
          \/ credentialStore'[k].privateKeyPath # ""
     /\ \A k \in CredIds, p \in Params :
          /\ p.password = "" /\ p.privateKeyPath = ""
          /\ handleSaveCredential(k, p)
          => last'.code = "InvalidParams" /\ NoStateChange]_vars

\* C14, witness: a save with neither a password nor a private key was
\* refused for that, its id is not stored, and a credential stored earlier
\* had been connected with.
C14_Witness ==
  /\ last.op = "save" /\ last.code = "InvalidParams"
  /\ last.msg = "no authentication"
  /\ ~Has(credentialStore, last.id)
  /\ nodes # <<>>

\* C15: every credential in credentialStore has exactly one of a password
\* and a private key.
C15_ExactlyOneMethod ==
  \A k \in DOMAIN credentialStore :
    (credentialStore[k].password # "") # (credentialStore[k].privateKeyPath # "")

\* Other values of the secrets.
Passwords == {"p", "q"}
PrivateKeyPaths == {"k", "l"}
Passphrases == {"x", "y"}

\* The credentials that differ from cred in the values of the secrets it has.
SameButSecrets(cred) ==
  {[cred EXCEPT !.password = pw, !.privateKeyPath = pk, !.passphrase = pp] :
     pw \in IF cred.password = "" THEN {""} ELSE Passwords,
     pk \in IF cred.privateKeyPath = "" THEN {""} ELSE PrivateKeyPaths,
     pp \in IF cred.passphrase = "" THEN {""} ELSE Passphrases}

\* The stores that differ from store in the values of secrets only.
SameButSecretsStores(store) ==
  {other \in [DOMAIN store -> UNION {SameButSecrets(store[k]) : k \in DOMAIN store}] :
     \A k \in DOMAIN store : other[k] \in SameButSecrets(store[k])}

\* C16: what ssh_list_credentials returns is what it would return for any
\* store that differs from credentialStore in the values of secrets only,
\* and of the secrets its entries carry hasPassword and hasPrivateKey, two
\* booleans, and nothing else.
C16_ListMasksSecrets ==
  [][handleListCredentials
     => /\ \A other \in SameButSecretsStores(credentialStore) :
             /\ ListedCredentials(other) = ListedCredentials(credentialStore)
             /\ ListText(other) = last'.credentials
        /\ \A k \in DOMAIN credentialStore :
             /\ DOMAIN ListedCredentials(credentialStore)[k] =
                  {"host", "port", "username", "hasPassword",
                   "hasPrivateKey", "createdAt", "lastUsed"}
             /\ ListedCredentials(credentialStore)[k].hasPassword \in BOOLEAN
             /\ ListedCredentials(credentialStore)[k].hasPrivateKey \in BOOLEAN
             /\ DOMAIN last'.credentials[k] =
                  {"username", "host", "port", "method", "lastUsed"}
             /\ last'.credentials[k].method \in {"password", "key"}]_vars

\* C16, witness: a list returned the line of a credential that has a private
\* key and a passphrase.
C16_Witness ==
  /\ last.op = "list"
  /\ \E k \in DOMAIN credentialStore :
       /\ Has(last.credentials, k)
       /\ last.credentials[k].method = "key"
       /\ credentialStore[k].privateKeyPath # ""
       /\ credentialStore[k].passphrase # ""

\* C17, the parts that do not speak of time: a save that succeeds stores the
\* id so that its listed entry has hasPassword and hasPrivateKey as the
\* password and the private key were given; a list returns a line for every
\* stored id, with the method its hasPassword stands for; a connect with a
\* credential that was not refused and whose transport connects registers
\* its connectionId and stores the credential with lastUsed read from the
\* clock.
SaveListConnect ==
  /\ \A k \in CredIds, p \in Params :
       handleSaveCredential(k, p) /\ last'.code = "ok"
       => /\ Has(credentialStore', k)
          /\ ListedCredentials(credentialStore')[k].hasPassword = (p.password # "")
          /\ ListedCredentials(credentialStore')[k].hasPrivateKey =
               (p.privateKeyPath # "")
  /\ handleListCredentials
     => /\ DOMAIN last'.credentials = DOMAIN credentialStore
        /\ \A k \in DOMAIN credentialStore :
             (last'.credentials[k].method = "password")
               = (credentialStore[k].password # "")
  /\ \A c \in Calls :
       connectWithCredentialSettled(c, TRUE)
       => /\ last' = Ok("connectWith", calls[c].id, calls[c].arg)
          /\ Has(connectionPool', calls[c].id)
          /\ Has(connectionContexts', calls[c].id)
          /\ Has(credentialStore', calls[c].arg)
          /\ credentialStore'[calls[c].arg].lastUsed = clock

Stable(cred) == [cred EXCEPT !.lastUsed = 0]

\* C18: an id comes into credentialStore only by a save that succeeds and
\* goes out of it only by a delete, and while it is in it nothing of its
\* credential changes but lastUsed.
C18_CredentialLifecycle ==
  [][\A k \in CredIds :
       /\ ~Has(credentialStore, k) /\ Has(credentialStore', k)
          => \E p \in Params : handleSaveCredential(k, p)
       /\ Has(credentialStore, k) /\ ~Has(credentialStore', k)
          => handleDeleteCredential(k)
       /\ Has(credentialStore, k) /\ Has(credentialStore', k)
          => Stable(credentialStore'[k]) = Stable(credentialStore[k])]_vars

\* C19: a disconnect that returns removes the id, a connect under the id is
\* then not refused and, its transport connecting, registers a new context
\* with no working directory; a context's directory is changed only by a
\* call that was made on it, so that the context registered under an id
\* holds no directory but its own, and a get answers with the directory of
\* the context it was made on.
C19_ReopenedStartsEmpty ==
  [][/\ \A x \in ConnIds :
          Has(connectionPool, x) /\ handleSSHDisconnect(x, FALSE)
          => ~Has(connectionPool', x) /\ ~Has(connectionContexts', x)
     /\ \A c \in Calls, x \in ConnIds, p \in PasswordOnly :
          ~Has(connectionPool, x) /\ handleSSHConnect(c, x, p)
          => calls'[c].op = "connect" /\ last' = last
     /\ \A c \in Calls :
          sshConnectSettled(c, TRUE)
          => /\ last' = Ok("connect", calls[c].id, "")
             /\ connectionContexts'[calls[c].id] \notin 1..Len(nodes)
             /\ nodes'[connectionContexts'[calls[c].id]].currentWorkingDirectory
                  = NoDir
     /\ \A h \in 1..Len(nodes) :
          nodes'[h].currentWorkingDirectory # nodes[h].currentWorkingDirectory
          => \E c \in Calls :
               /\ calls[c].op \in {"setWorkingDirectory", "getWorkingDirectory"}
               /\ calls[c].obj = h
               /\ calls'[c] = Idle
     /\ \A x \in DOMAIN connectionContexts' :
          nodes'[connectionContexts'[x]].currentWorkingDirectory
            \in {NoDir, HomeDir, PathOf(connectionContexts'[x])}
     /\ \A c \in Calls, x \in ConnIds :
          /\ Has(connectionContexts, x)
          /\ handleGetWorkingDirectory(c, x)
          /\ calls' = calls
          => /\ last'.code = "ok"
             /\ last'.path \in {HomeDir, PathOf(connectionContexts[x])}
     /\ \A c \in Calls :
          pwdSettled(c, "printed")
          => last'.path = HomeDir /\ last'.id = calls[c].id]_vars

\* C19, witness: a get on the second connection under an id answered with
\* the directory set on it, the first connection being closed with the
\* directory set on it still in its context.
C19_Witness ==
  /\ last.op = "getWorkingDirectory" /\ last.code = "ok"
  /\ Has(connectionContexts, last.id)
  /\ connectionContexts[last.id] = 2
  /\ last.path = PathOf(2)
  /\ nodes[1].disposed
  /\ nodes[1].currentWorkingDirectory = PathOf(1)

\* C20: ssh_set_working_directory changes no context before its probe has
\* answered; when the probe says the directory exists the path is set in
\* the context the call was made on; when it says it does not, the call
\* fails with InvalidParams and every context keeps its directory.
C20_CommitAfterProbe ==
  [][/\ \A c \in Calls, x \in ConnIds, path \in Paths :
          handleSetWorkingDirectory(c, x, path) => nodes' = nodes
     /\ \A c \in Calls :
          workingDirectoryProbed(c, "exists")
          => /\ nodes'[calls[c].obj].currentWorkingDirectory = calls[c].arg
             /\ last'.code = "ok"
     /\ \A c \in Calls :
          workingDirectoryProbed(c, "absent")
          => /\ last'.code = "InvalidParams"
             /\ last'.op = "setWorkingDirectory"
             /\ nodes' = nodes]_vars

\* C20, witness: a set was refused because its probe found no directory, on
\* a connection whose context holds the directory `pwd` printed before.
C20_Witness ==
  /\ last.op = "setWorkingDirectory" /\ last.code = "InvalidParams"
  /\ last.msg = "no directory"
  /\ Has(connectionContexts, last.id)
  /\ nodes[connectionContexts[last.id]].currentWorkingDirectory = HomeDir

\* C21: ssh_get_working_directory answers with the cached directory when
\* there is one, without a query; with none it queries `pwd`, and caches
\* what it printed; and it queries only when no query of another get on the
\* same context is under way, so that the gets on a connection query once.
C21_QueriedAtMostOnce ==
  [][/\ \A c \in Calls, x \in ConnIds :
          /\ Has(connectionContexts, x)
          /\ nodes[connectionContexts[x]].currentWorkingDirectory # NoDir
          /\ handleGetWorkingDirectory(c, x)
          => /\ calls' = calls
             /\ last'.path = nodes[connectionContexts[x]].currentWorkingDirectory
     /\ \A c \in Calls :
          pwdSettled(c, "printed")
          => /\ nodes'[calls[c].obj].currentWorkingDirectory = HomeDir
             /\ last'.path = HomeDir
     /\ \A c \in Calls, x \in ConnIds :
          /\ Has(connectionContexts, x)
          /\ handleGetWorkingDirectory(c, x)
          /\ calls'[c].pc = "pwd"
          => \A d \in Calls :
               ~(/\ calls[d].op = "getWorkingDirectory"
                 /\ calls[d].pc = "pwd"
                 /\ calls[d].obj = connectionContexts[x])]_vars

\* C22: ssh_execute gives the transport the cwd it was called with, none
\* when it was called with none, whatever directory the context holds, and
\* neither its call nor its completion changes a map or a context.
C22_ExecuteUsesCallerCwd ==
  [][/\ \A c \in Calls, x \in ConnIds, cwd \in Paths \cup {NoDir} :
          Has(connectionPool, x) /\ handleSSHExecute(c, x, cwd)
          => /\ calls'[c].op = "execute"
             /\ calls'[c].arg = cwd
             /\ UNCHANGED <<connectionPool, connectionContexts,
                            credentialStore, shellSessions, nodes, sessions>>
     /\ \A c \in Calls, threw \in BOOLEAN :
          execCommandSettled(c, threw)
          => /\ ~threw => last'.code = "ok" /\ last'.path = calls[c].arg
             /\ UNCHANGED <<connectionPool, connectionContexts,
                            credentialStore, shellSessions, nodes, sessions>>]_vars

\* C22, witness: a command called without cwd was executed without one on a
\* connection whose context holds a directory.
C22_Witness ==
  /\ last.op = "execute" /\ last.code = "ok" /\ last.path = NoDir
  /\ Has(connectionContexts, last.id)
  /\ nodes[connectionContexts[last.id]].currentWorkingDirectory \in Paths

\* C23: the shutdown closes and removes every registered session whose
\* shell.close() does not throw and every registered connection whose
\* ssh.dispose() does not throw, whichever of the others throw.
C23_ShutdownClosesAll ==
  [][\A closeThrows \in SUBSET SessIds2, disposeThrows \in SUBSET ConnIds2 :
       cleanup(closeThrows, disposeThrows)
       => /\ \A s \in DOMAIN shellSessions \ closeThrows :
               /\ sessions'[shellSessions[s]].closeRequested
               /\ ~sessions'[shellSessions[s]].isActive
               /\ ~Has(shellSessions', s)
          /\ \A x \in DOMAIN connectionPool \ disposeThrows :
               /\ nodes'[connectionPool[x]].disposed
               /\ ~Has(connectionPool', x)
          /\ exited']_vars

\* C23, witness: the process has shut down with two sessions and two
\* connections registered; one session and one connection failed to close
\* and are still registered, the others are closed and removed.
C23_Witness ==
  /\ exited
  /\ Len(sessions) = 2 /\ Len(nodes) = 2
  /\ Cardinality(DOMAIN shellSessions) = 1
  /\ Cardinality(DOMAIN connectionPool) = 1
  /\ \E j \in 1..2 : sessions[j].closeRequested
  /\ \E h \in 1..2 : nodes[h].disposed

\* The remote-to-remote copies that are past their getFile and before the
\* end of their unlink.
Staging ==
  {c \in Calls : /\ calls[c].op = "copy"
                 /\ calls[c].pc \in {"stageMkdir", "stagePut", "unlink",
                                     "catchUnlink"}}

C26_UnknownRefNotFound ==
  [][\A c \in Calls, x \in FileRefs \ {Local} :
       /\ ~Has(connectionPool, x)
       /\ \/ handleSSHListFiles(c, x)
          \/ handleSSHFileInfo(c, x)
          \/ \E y \in FileRefs, createDirectories \in BOOLEAN :
               \/ handleSSHCopyFile(c, x, y, createDirectories)
               \/ handleSSHCopyFile(c, y, x, createDirectories)
       => NotFound(last') /\ NoStateChange]_vars

\* C25: ssh_send_input to a session whose connection has been closed by
\* ssh_disconnect ends with an error: it does not report success and does
\* not go on typing.
C25_SendAfterDisconnectFails ==
  [][\A c \in Calls, s \in SessIds, input \in Inputs,
        simulateTyping \in BOOLEAN, writeThrows \in BOOLEAN :
       /\ Has(shellSessions, s)
       /\ nodes[sessions[shellSessions[s]].ssh].disposed
       /\ handleSendInput(c, s, input, simulateTyping, writeThrows)
       => /\ last'.op = "send" /\ last'.code # "ok"
          /\ UNCHANGED calls]_vars

\* C27: the 'data' listeners set on a session never outnumber the reads
\* waiting on it: a read that has returned has left neither its timer nor
\* its listener behind.
C27_NoListenerLeftBehind ==
  \A j \in 1..Len(sessions) :
    sessions[j].listeners <= Cardinality(Waiting(j))

\* C28: every ssh_read_output that waits returns, whatever happens to its
\* session meanwhile, and the read that returns on its timeout returns the
\* empty string.
C28_ReadReturns ==
  /\ \A c \in Sequential : (calls[c].op = "read") ~> (calls[c].op # "read")
  /\ [][\A c \in Sequential :
          readOutputTimeout(c)
          => last'.op = "read" /\ last'.code = "ok" /\ last'.out = <<>>]_vars

\* C28, witness: a read has returned the empty string on a session that was
\* closed and removed while the read was waiting.
C28_Witness ==
  /\ last.op = "read" /\ last.code = "ok" /\ last.out = <<>>
  /\ ~Has(shellSessions, last.id)
  /\ \A c \in Calls : calls[c] = Idle

\* C29: the buffer of a session changes only by a 'data' event, which
\* appends to it, or by a read with clearBuffer, which empties it; and a
\* read without clearBuffer returns the text that is in the buffer and
\* leaves it there, so that a second such read, with no 'data' event since
\* the first returned, returns the same text.
C29_BufferFrame ==
  [][/\ \A j \in 1..Len(sessions) :
          sessions'[j].buffer # sessions[j].buffer
          => \/ /\ IsPrefix(sessions[j].buffer, sessions'[j].buffer)
                /\ shellOnData(j)
             \/ /\ sessions'[j].buffer = <<>>
                /\ \E c \in Calls :
                     \/ /\ calls[c].op = "read" /\ calls[c].flag
                        /\ calls[c].obj = j
                        /\ readOutputTimeout(c) \/ readOutputResumed(c)
                     \/ \E s \in SessIds :
                          /\ Has(shellSessions, s) /\ shellSessions[s] = j
                          /\ handleReadOutput(c, s, TRUE)
     /\ \A c \in Calls :
          /\ calls[c].op = "read" /\ ~calls[c].flag
          /\ calls'[c] = Idle
          => last'.out = sessions'[calls[c].obj].buffer
     /\ \A c \in Calls, s \in SessIds :
          /\ Has(shellSessions, s)
          /\ sessions[shellSessions[s]].buffer # <<>>
          /\ handleReadOutput(c, s, FALSE)
          => /\ last'.out = sessions[shellSessions[s]].buffer
             /\ sessions'[shellSessions[s]].buffer = last'.out]_vars

\* C30: while a send with simulateTyping is between two characters, the
\* 'data' hook of every other open session can run, and a read on another
\* session that a 'data' event has woken can return.
C30_TypingBlocksNoOtherSession ==
  \A c \in Calls :
    calls[c].op = "send" /\ calls[c].pc = "typing"
    => /\ \A j \in 1..Len(sessions) :
            /\ j # calls[c].obj
            /\ ~sessions[j].closed
            /\ sessions[j].nData < MaxData
            /\ SameSocketRead(j)
            => ENABLED shellOnData(j)
       /\ \A d \in Calls :
            Captured(d) /\ calls[d].obj # calls[c].obj
            => ENABLED readOutputResumed(d)

\* C30, witness: a send is between the first and the second character of
\* its input, and a read that was waiting on another session has been woken
\* by a 'data' event of that session, whose text is in its buffer.
C30_Witness ==
  \E c \in Calls, d \in Calls :
    /\ calls[c].op = "send" /\ calls[c].pc = "typing"
    /\ Len(calls[c].out) < Len(calls[c].input)
    /\ Captured(d) /\ calls[d].obj # calls[c].obj
    /\ calls[d].out # <<>>
    /\ sessions[calls[d].obj].buffer = calls[d].out

\* C31: a shell.write that throws during ssh_send_input, at the first
\* character or at a later one, ends the call with an InternalError and
\* changes nothing else: the session stays registered, with its isActive,
\* its buffer and all the rest as they were, so that a later call on it
\* finds what it would have found without the failed send.
C31_WriteErrorKeepsSession ==
  [][/\ \A c \in Calls, s \in SessIds, input \in Inputs \ {<<>>},
          simulateTyping \in BOOLEAN :
          /\ Has(shellSessions, s)
          /\ sessions[shellSessions[s]].isActive
          /\ handleSendInput(c, s, input, simulateTyping, TRUE)
          => /\ last' = InternalError("send", s, "", "send failed")
             /\ NoStateChange
     /\ \A c \in Calls :
          /\ At(c, "send", "typing")
          /\ Len(calls[c].out) < Len(calls[c].input)
          /\ typingDelayElapsed(c, TRUE)
          => /\ last' = InternalError("send", calls[c].id, "", "send failed")
             /\ calls'[c] = Idle
             /\ UNCHANGED <<shellSessions, sessions>>]_vars

\* C31, witness: a send has ended with an InternalError on a session whose
\* channel had been written one character, and the session is registered
\* and active.
C31_Witness ==
  /\ last.op = "send" /\ last.code = "InternalError"
  /\ Has(shellSessions, last.id)
  /\ sessions[shellSessions[last.id]].isActive
  /\ sessions[shellSessions[last.id]].written = <<7>>

\* C32: an ssh_start_interactive_shell that fails, because its connection
\* is not registered, because its sessionId is registered or because the
\* channel could not be opened, registers nothing and leaves every session
\* as it was; and after one that failed for the first or the last reason, a
\* start of the same sessionId on a registered connection goes on to open a
\* channel and, when that is opened, registers the session and returns.
C32_FailedStartRegistersNothing ==
  [][/\ \A c \in Calls, x \in ConnIds, s \in SessIds :
          /\ ~Has(connectionPool, x) \/ Has(shellSessions, s)
          /\ handleStartInteractiveShell(c, x, s)
          => /\ last'.op = "startShell" /\ last'.code = "InvalidParams"
             /\ NoStateChange
     /\ \A c \in Calls :
          /\ calls[c].op = "startShell"
          /\ requestShellSettled(c, FALSE)
          => /\ last' = InternalError("startShell", calls[c].id, calls[c].arg,
                                      "shell failed")
             /\ UNCHANGED <<shellSessions, sessions, connectionPool,
                            connectionContexts, credentialStore, nodes>>
     /\ \A c \in Calls, x \in ConnIds, s \in SessIds :
          /\ last.op = "startShell" /\ last.id = s
          /\ last.msg \in {"not found", "shell failed"}
          /\ ~Has(shellSessions, s) /\ Has(connectionPool, x)
          /\ handleStartInteractiveShell(c, x, s)
          => calls'[c].op = "startShell" /\ calls'[c].id = s
     /\ \A c \in Calls :
          /\ calls[c].op = "startShell"
          /\ requestShellSettled(c, TRUE)
          => /\ Has(shellSessions', calls[c].id)
             /\ sessions'[shellSessions'[calls[c].id]] =
                  NewSession(calls[c].obj)
             /\ last' = Ok("startShell", calls[c].id, calls[c].arg)]_vars

\* C32, witness: a start of s1 failed because its channel could not be
\* opened, s1 is not registered, and a later start of s1 has passed its
\* lookups and is opening a channel.
C32_Witness ==
  /\ last = InternalError("startShell", "s1", "c1", "shell failed")
  /\ ~Has(shellSessions, "s1")
  /\ \E c \in Calls : calls[c].op = "startShell" /\ calls[c].id = "s1"

\* C33: an ssh_connect_with_credential that fails, because its connectionId
\* is registered, because its credentialId is not, or because the transport
\* did not connect, leaves credentialStore, the lastUsed of its credential
\* included, and connectionPool and connectionContexts as they were.
C33_FailedConnectUsingChangesNothing ==
  [][/\ \A c \in Calls, k \in CredIds, x \in ConnIds :
          /\ Has(connectionPool, x) \/ ~Has(credentialStore, k)
          /\ handleConnectWithCredential(c, k, x)
          => /\ last'.op = "connectWith" /\ last'.code = "InvalidParams"
             /\ NoStateChange
     /\ \A c \in Calls :
          /\ calls[c].op = "connectWith"
          /\ connectWithCredentialSettled(c, FALSE)
          => /\ last'.op = "connectWith" /\ last'.code = "InternalError"
             /\ UNCHANGED <<credentialStore, connectionPool,
                            connectionContexts, nodes>>]_vars

\* C33, witness: a connect with credential k1 has failed at the transport at
\* a time later than the credential was saved; k1 is in the store with the
\* lastUsed it was saved with, and the connectionId is not registered.
C33_Witness ==
  /\ last.op = "connectWith" /\ last.code = "InternalError"
  /\ last.arg = "k1" /\ Has(credentialStore, "k1")
  /\ credentialStore["k1"].lastUsed = credentialStore["k1"].createdAt
  /\ credentialStore["k1"].createdAt < clock
  /\ ~Has(connectionPool, last.id)

\* C34: no text a session has received is returned by two reads with
\* clearBuffer: in the texts the clearing reads of a session have returned,
\* one after the other, the text of no 'data' event occurs twice.
C34_DeliveredToOneRead ==
  \A j \in 1..Len(sessions) :
    \A i, k \in 1..Len(sessions[j].delivered) :
      i # k => sessions[j].delivered[i] # sessions[j].delivered[k]

\* C35: nothing is written to the channel of a session whose isActive is
\* false, whether its channel closed or ssh_close_interactive_shell closed
\* it, also by a send with simulateTyping that began before.
C35_NoWriteAfterInactive ==
  [][\A j \in 1..Len(sessions) :
       ~sessions[j].isActive => sessions'[j].written = sessions[j].written]_vars

\* C36: the characters of one ssh_send_input reach the channel together:
\* while a send with simulateTyping has written a part of its input and not
\* yet all of it, nothing but its own next character is written to the
\* channel of its session.
C36_InputContiguous ==
  [][\A d \in Calls :
       /\ calls[d].op = "send" /\ calls[d].pc = "typing"
       /\ Len(calls[d].out) < Len(calls[d].input)
       /\ sessions'[calls[d].obj].written # sessions[calls[d].obj].written
       => calls'[d].out # calls[d].out]_vars

\* C37: connectionPool and connectionContexts have the same ids, and the
\* context of an id holds the NodeSSH object the pool has under that id, in
\* every state, those after the shutdown's cleanup included.
C37_PoolAndContextsAgree ==
  /\ DOMAIN connectionPool = DOMAIN connectionContexts
  /\ \A x \in DOMAIN connectionPool : connectionContexts[x] = connectionPool[x]

\* C38: a session object is made with isActive true, and once its isActive
\* is false, set so by the 'close' hook, by ssh_close_interactive_shell or
\* by the shutdown, nothing sets it to true again.
C38_IsActiveMonotone ==
  [][/\ \A j \in 1..Len(sessions') :
          j > Len(sessions)
          => /\ sessions'[j].isActive
             /\ \E s \in DOMAIN shellSessions' : shellSessions'[s] = j
     /\ \A j \in 1..Len(sessions) :
          ~sessions[j].isActive => ~sessions'[j].isActive]_vars

\* C38, witness: the process has shut down with two session objects made,
\* the first inactive since its channel closed, the second since the
\* shutdown closed it.
C38_Witness ==
  /\ exited
  /\ Len(sessions) = 2
  /\ ~sessions[1].isActive /\ sessions[1].closed
  /\ ~sessions[2].isActive /\ sessions[2].closeRequested /\ ~sessions[2].closed

\* C39: a 'data' or 'close' event of the channel of a session that is no
\* longer registered changes neither the buffer nor the isActive of any
\* session that is registered, the one started since under the same id
\* included.
C39_EarlierSessionIsolated ==
  [][\A j \in 1..Len(sessions) :
       /\ \A s \in DOMAIN shellSessions : shellSessions[s] # j
       /\ shellOnData(j) \/ shellOnClose(j)
       => \A s \in DOMAIN shellSessions :
            /\ sessions'[shellSessions[s]].buffer =
                 sessions[shellSessions[s]].buffer
            /\ sessions'[shellSessions[s]].isActive =
                 sessions[shellSessions[s]].isActive]_vars

\* C39, witness: s1 was started, closed and started again; the channel of
\* the first session has delivered text and has closed, and the session now
\* registered under s1 is active and has received nothing.
C39_Witness ==
  /\ Len(sessions) = 2
  /\ Has(shellSessions, "s1") /\ shellSessions["s1"] = 2
  /\ sessions[1].closeRequested /\ sessions[1].closed
  /\ sessions[1].buffer # <<>>
  /\ sessions[2].isActive /\ sessions[2].buffer = <<>>

\* C40: the directory a successful ssh_set_working_directory has put in a
\* context stays there until another successful set on that context, and
\* ssh_get_working_directory returns it without a query; a set that
\* succeeds leaves its own path in the context, so that after overlapping
\* sets the context holds the path of one of them.
C40_SetGetRoundTrip ==
  [][/\ \A h \in 1..Len(nodes) :
          /\ nodes[h].currentWorkingDirectory \in Paths
          /\ nodes'[h].currentWorkingDirectory # nodes[h].currentWorkingDirectory
          => \E c \in Calls :
               /\ calls[c].op = "setWorkingDirectory" /\ calls[c].obj = h
               /\ workingDirectoryProbed(c, "exists")
     /\ \A c \in Calls, x \in ConnIds :
          /\ Has(connectionContexts, x)
          /\ nodes[connectionContexts[x]].currentWorkingDirectory \in Paths
          /\ handleGetWorkingDirectory(c, x)
          => /\ calls' = calls
             /\ last'.code = "ok"
             /\ last'.path = nodes[connectionContexts[x]].currentWorkingDirectory
     /\ \A c \in Calls :
          /\ calls[c].op = "setWorkingDirectory"
          /\ workingDirectoryProbed(c, "exists")
          => nodes'[calls[c].obj].currentWorkingDirectory = calls[c].arg]_vars

====
